---- MODULE Spec2Model ----
(***************************************************************************)
(* The incoming-message pipeline of the WhatsApp integration server:       *)
(* the webhook handler (routes/webhookRoutes.js), the manual document      *)
(* trigger (controllers/documentController.js, processDocument) and the    *)
(* history fetch (getMessages, _processMediaDocument), over the three      *)
(* Mongoose collections Chat, Message and Document and the socket.io       *)
(* notifier; the other handlers that create a Chat or a Message            *)
(* (sendMessage, getChatById of the chat controller and of index.js,       *)
(* assignToOrganization); the reaction to a Message (reactToMessage); the  *)
(* rooms of the notifier (join_chat, leave_chat); the organization         *)
(* handlers of the organization controller and of index.js; and the table  *)
(* extraction of the OCR client (_extractTables).                          *)
(*                                                                         *)
(* Node runs every handler on one event loop: a handler runs without       *)
(* interruption from one `await` to the next.  One action of this module   *)
(* is one such segment: the completion of the awaited call (the store      *)
(* read or write, the provider or OCR call) together with the synchronous  *)
(* code that follows it up to the next `await`.                            *)
(*                                                                         *)
(* The store is reliable: a store call fails only when it violates a       *)
(* unique index (Chat.chatId, Message.messageId).  Provider and OCR calls  *)
(* succeed or fail nondeterministically.  The provider answers             *)
(* getChatInfo(id) with the metadata of chat `id`.                         *)
(*                                                                         *)
(* Strings the code takes apart (media URLs) are sequences of              *)
(* one-character strings; all other strings are atoms.                     *)
(***************************************************************************)
EXTENDS Integers, Sequences, FiniteSets, TLC

\* Number of HTTP requests (webhook deliveries, manual triggers, history
\* fetches) in one behaviour.
MaxReq == 2

\* Longest media URL the classification is checked on.
MaxUrlLen == 5

\* Longest message list one history fetch gets from the provider.
MaxHistory == 1

\* Number of client sockets.
MaxClients == 2

\* Number of broadcasts in one behaviour of the notifier.
MaxBroadcast == 2

VARIABLES
    chats,      \* Chat collection: set of rows [_id, chatId, lastMessage, organization]
    messages,   \* Message collection: set of rows
    documents,  \* Document collection: set of rows
    emitted,    \* socket.io broadcasts so far: a bag of events
    reqs,       \* the HTTP requests: r -> its handler's locals and position
    tasks,      \* the launched background document tasks, in launch order
    url,        \* classification check: the media URL under examination
    classified, \* classification check: result per implementation and type
    sockets,    \* socket.io: the connected client sockets
    rooms,      \* socket.io: topic -> the sockets that joined it
    inbox,      \* per client socket: the broadcasts it has received
    joined,     \* the pairs <<client, topic>> whose client asked to join the
                \* topic and has neither asked to leave it nor gone since
    organizations, \* Organization collection: set of rows [_id, chats, chatIds, v]
    aiDocument, \* table extraction check: the document the OCR service returned
    tables      \* table extraction check: the tables extracted from it

vars == <<chats, messages, documents, emitted, reqs, tasks, url, classified,
          sockets, rooms, inbox, joined, organizations, aiDocument, tables>>

\* The table extraction check, which no handler touches.
ocr == <<aiDocument, tables>>

\* The socket.io state, which no HTTP handler or document task touches.
notifier == <<sockets, rooms, inbox, joined>>

----------------------------------------------------------------------------
(* Strings as sequences of characters *)

\* String.prototype.toLowerCase, one character.
LowerChar(c) ==
    CASE c = "P" -> "p"
      [] c = "D" -> "d"
      [] c = "F" -> "f"
      [] c = "O" -> "o"
      [] c = "C" -> "c"
      [] c = "X" -> "x"
      [] OTHER -> c

\* A bug that forgets the case folding.
toLowerCaseNoFold(s) == s

toLowerCase(s) == [i \in 1..Len(s) |-> LowerChar(s[i])]

RECURSIVE split(_, _)
\* String.prototype.split(sep) for a one-character separator: the segments
\* between separators, in order (a string without separator is one segment).
split(s, sep) ==
    IF \A i \in 1..Len(s) : s[i] # sep
    THEN <<s>>
    ELSE LET i == CHOOSE k \in 1..Len(s) :
                      /\ s[k] = sep
                      /\ \A j \in 1..(k - 1) : s[j] # sep
         IN  <<SubSeq(s, 1, i - 1)>> \o split(SubSeq(s, i + 1, Len(s)), sep)

\* Array.prototype.pop: the last element.
pop(a) == a[Len(a)]

PDF == <<"p", "d", "f">>
DOC == <<"d", "o", "c">>
DOCX == <<"d", "o", "c", "x">>

----------------------------------------------------------------------------
(* MIME classification, once per implementation *)

\* processMediaDocument (webhook task).
ClassifyWebhook(mediaType, mediaUrl) ==
    IF mediaType = "image"
    THEN [fileType |-> "image", mimeType |-> "image/jpeg"]
    ELSE LET fileExt == toLowerCase(pop(split(mediaUrl, ".")))
         IN  IF fileExt = PDF
             THEN [fileType |-> "pdf", mimeType |-> "application/pdf"]
             ELSE IF fileExt \in {DOC, DOCX}
             THEN [fileType |-> "doc", mimeType |-> "application/msword"]
             ELSE [fileType |-> "other", mimeType |-> "application/octet-stream"]

\* processDocument (manual trigger).
ClassifyManual(mediaType, mediaUrl) ==
    IF mediaType = "image"
    THEN [fileType |-> "image", mimeType |-> "image/jpeg"]
    ELSE LET fileExt == toLowerCase(pop(split(mediaUrl, ".")))
         IN  IF fileExt = PDF
             THEN [fileType |-> "pdf", mimeType |-> "application/pdf"]
             ELSE IF fileExt \in {DOC, DOCX}
             THEN [fileType |-> "doc", mimeType |-> "application/msword"]
             ELSE [fileType |-> "other", mimeType |-> "application/octet-stream"]

\* _processMediaDocument (history fetch): a third branch returns without
\* processing when the media type is neither image nor document.
ClassifyHistory(mediaType, mediaUrl) ==
    IF mediaType = "image"
    THEN [fileType |-> "image", mimeType |-> "image/jpeg"]
    ELSE IF mediaType = "document"
    THEN LET fileExt == toLowerCase(pop(split(mediaUrl, ".")))
         IN  IF fileExt = PDF
             THEN [fileType |-> "pdf", mimeType |-> "application/pdf"]
             ELSE IF fileExt \in {DOC, DOCX}
             THEN [fileType |-> "doc", mimeType |-> "application/msword"]
             ELSE [fileType |-> "other", mimeType |-> "application/octet-stream"]
    ELSE [fileType |-> "", mimeType |-> ""]

----------------------------------------------------------------------------
(* The OCR client's table extraction: _extractTables *)

\* Most rows in a group (header rows, body rows) of a source table.
MaxRows == 2

\* Most cells in a row of a source table.
MaxCells == 1

\* A field of the OCR service's result is absent (undefined) or holds a
\* value.
Absent == << >>
Some(v) == <<v>>

\* Before the OCR service has answered, and before the extraction has run.
NoDocument == [text |-> << >>, pages |-> Absent]
Pending == [done |-> FALSE, value |-> << >>]

\* x || [], x || 1 and x || 0 on such a field.
OrEmpty(x) == IF x = Absent THEN << >> ELSE x[1]
OrOneNullish(x) == IF x = Absent THEN 1 ELSE x[1]
OrOne(x) == IF x = Absent \/ x = Some(0) THEN 1 ELSE x[1]
OrZero(x) == IF x = Absent THEN 0 ELSE x[1]

\* String.prototype.substring(start, end): the indices are clamped to the
\* string and swapped when start exceeds end.
substring(s, start, end) ==
    LET clamp(i) == IF i < 0 THEN 0 ELSE IF i > Len(s) THEN Len(s) ELSE i
        a == clamp(start)
        b == clamp(end)
    IN  IF a <= b THEN SubSeq(s, a + 1, b) ELSE SubSeq(s, b + 1, a)

RECURSIVE trim(_)
\* String.prototype.trim for the blank " ".
trim(s) ==
    IF s = << >> THEN s
    ELSE IF Head(s) = " " THEN trim(Tail(s))
    ELSE IF s[Len(s)] = " " THEN trim(SubSeq(s, 1, Len(s) - 1))
    ELSE s

\* One cell: the text its first segment anchors, trimmed, and its spans.
ExtractCell(text, cell) ==
    LET textSegment == IF cell.textAnchor = Absent
                       THEN [startIndex |-> Absent, endIndex |-> Absent]
                       ELSE cell.textAnchor[1]
        start == OrZero(textSegment.startIndex)
        end == OrZero(textSegment.endIndex)
    IN  [text |-> trim(substring(text, start, end)),
         rowSpan |-> OrOne(cell.rowSpan),
         colSpan |-> OrOne(cell.colSpan)]

\* The rows of one group, in their order, flagged as header or body.
ExtractRows(text, group, isHeader) ==
    [i \in 1..Len(group) |->
        [cells |-> [j \in 1..Len(group[i].cells) |->
                       ExtractCell(text, group[i].cells[j])],
         isHeader |-> isHeader]]

\* One table: its header rows, then its body rows.
ExtractTable(text, table, pageNumber) ==
    [rows |-> ExtractRows(text, OrEmpty(table.headerRows), TRUE)
                \o ExtractRows(text, OrEmpty(table.bodyRows), FALSE),
     pageNumber |-> pageNumber]

RECURSIVE ExtractPages(_, _)
\* The tables of the pages, page after page; a page without tables gives
\* none.
ExtractPages(text, pages) ==
    IF pages = << >> THEN << >>
    ELSE LET page == Head(pages)
             own == OrEmpty(page.tables)
         IN  [i \in 1..Len(own) |-> ExtractTable(text, own[i], page.pageNumber)]
                 \o ExtractPages(text, Tail(pages))

\* if (!document.pages) return []; otherwise every table of every page.
_extractTables(document) ==
    IF document.pages = Absent THEN << >>
    ELSE ExtractPages(document.text, document.pages[1])

\* The sequences over S of at most n elements.
SeqsUpTo(S, n) == UNION {[1..k -> S] : k \in 0..n}

\* The text of every document the OCR service returns here.
Text == <<" ", "a", " ">>

\* What the OCR service can return: no pages, a page without tables, or a
\* page with one table of up to MaxRows header rows and MaxRows body rows
\* (either group may be absent) of up to MaxCells cells.  Spans are
\* non-negative integers, absent or 0 when the service leaves them out; a
\* cell's text is anchored by a segment of the document text, or not at all.
SourceDocuments ==
    LET Spans == {Absent, Some(0), Some(2)}
        Anchors == {Absent, Some([startIndex |-> Absent, endIndex |-> Some(2)])}
        Cells == [textAnchor : Anchors, rowSpan : Spans, colSpan : Spans]
        SourceRows == {[cells |-> cs] : cs \in SeqsUpTo(Cells, MaxCells)}
        RowGroups == {Absent} \cup {Some(g) : g \in SeqsUpTo(SourceRows, MaxRows)}
        SourceTables == [headerRows : RowGroups, bodyRows : RowGroups]
    IN  {[text |-> Text, pages |-> Absent],
         [text |-> Text, pages |-> Some(<<[pageNumber |-> 1, tables |-> Absent]>>)]}
            \cup {[text |-> Text,
                   pages |-> Some(<<[pageNumber |-> 1, tables |-> Some(<<t>>)]>>)]
                    : t \in SourceTables}

----------------------------------------------------------------------------
(* The environment: what the provider knows and sends *)

\* The inbound messages the provider can deliver.  A redelivery carries the
\* same payload.  An absent field is the empty string.  One message (m5)
\* already carries a reaction of its sender and one of the account.
Events ==
    { [id |-> "m1", chatId |-> "c1", sender |-> "u0", mediaType |-> "image",
       mediaUrl |-> <<"y", ".", "j", "p", "g">>, reactions |-> << >>],
      [id |-> "m2", chatId |-> "c1", sender |-> "", mediaType |-> "document",
       mediaUrl |-> <<"a", ".", "P", "D", "F">>, reactions |-> << >>],
      [id |-> "m3", chatId |-> "c2", sender |-> "", mediaType |-> "",
       mediaUrl |-> << >>, reactions |-> << >>],
      [id |-> "m4", chatId |-> "c2", sender |-> "u4", mediaType |-> "video",
       mediaUrl |-> <<"v">>, reactions |-> << >>],
      [id |-> "m5", chatId |-> "c1", sender |-> "u5", mediaType |-> "audio",
       mediaUrl |-> <<"s">>,
       reactions |-> <<[userId |-> "u0", emoji |-> "-"],
                       [userId |-> "me", emoji |-> "+"]>>] }

\* Older messages the provider holds in a chat's history and no longer
\* delivers as events.
Archive ==
    { [id |-> "m6", chatId |-> "c2", sender |-> "u4", mediaType |-> "document",
       mediaUrl |-> <<"b", ".", "d", "o", "c">>, reactions |-> << >>],
      [id |-> "m7", chatId |-> "c2", sender |-> "u4", mediaType |-> "document",
       mediaUrl |-> <<"z">>, reactions |-> << >>] }

NoData ==
    [id |-> "", chatId |-> "", sender |-> "", mediaType |-> "", mediaUrl |-> << >>,
     reactions |-> << >>]

ChatIds == {e.chatId : e \in Events}
MessageIds == {e.id : e \in Events \cup Archive}

Req == 1..MaxReq

\* The messages the account sends itself: the provider returns the id of a
\* sent message to the sender and delivers the same message as an event.
OwnMessages == {e \in Events : e.id \in {"m1", "m3"}}

\* A group chat the provider knows (its id contains '@g.us') besides the
\* chats of the events.
GroupChatId == "g1@g.us"

\* The chat ids a client can ask for.
LookupIds == ChatIds \cup {GroupChatId}

\* The organization ids a client can name; 0 is a missing value.
OrganizationIds == {1}

\* The notification topics (socket.io rooms named by chat id) and the
\* client sockets.
Topics == ChatIds

Clients == 1..MaxClients

\* A request launches at most one task, a history fetch at most one per
\* fetched message.
TaskSlots == 1..(MaxReq * (MaxHistory + 1))

----------------------------------------------------------------------------
(* The notifier *)

\* One more occurrence of event e in bag b.
Emit(b, e) ==
    IF e \in DOMAIN b THEN [b EXCEPT ![e] = @ + 1] ELSE b @@ (e :> 1)

\* Number of events of bag b that satisfy P.
RECURSIVE SumOver(_, _)
SumOver(b, S) ==
    IF S = {} THEN 0
    ELSE LET e == CHOOSE x \in S : TRUE IN b[e] + SumOver(b, S \ {e})

Event(name, topic, chatId, message, document, by) ==
    [event |-> name, topic |-> topic, chatId |-> chatId, message |-> message,
     document |-> document, by |-> by]

\* io.emit(...) reaches every connected client: the topic is "*".
Everyone == "*"

----------------------------------------------------------------------------
(* The store *)

\* Mongoose assigns a fresh _id to every new document; rows are never
\* deleted, so the count of rows so far names the next one.
NewId(collection) == Cardinality(collection) + 1

ChatsWith(chatId) == {c \in chats : c.chatId = chatId}
MessagesWith(messageId) == {m \in messages : m.messageId = messageId}
DocumentsOf(message) == {d \in documents : d.originalMessage = message}

\* Model.findOne(filter): some matching row, or none.
FindOne(rows) == IF rows = {} THEN [_id |-> 0] ELSE CHOOSE row \in rows : TRUE

\* new Chat({ chatId, name, isGroup, participants, profilePicture }): the
\* row as stored, with the references the schema defines (lastMessage,
\* organization) unset unless the creator sets one.
NewChat(id, chatId, organization) ==
    [_id |-> id, chatId |-> chatId, lastMessage |-> 0,
     organization |-> organization]

\* A schema without the unique index on chatId.
ChatKeyFreeNoIndex(chatId) == TRUE

\* unique: true on Chat.chatId: an insert is rejected (E11000) when a row
\* with the key exists.
ChatKeyFree(chatId) == ChatsWith(chatId) = {}

\* A schema without the unique index on messageId.
MessageKeyFreeNoIndex(messageId) == TRUE

\* unique: true on Message.messageId.
MessageKeyFree(messageId) == MessagesWith(messageId) = {}

----------------------------------------------------------------------------
(* Requests and tasks *)

IdleReq ==
    [kind |-> "idle", pc |-> "idle", event |-> "", data |-> NoData,
     response |-> << >>, chat |-> 0, message |-> 0,
     target |-> 0, list |-> << >>, idx |-> 0,
     fetch |-> "", dedup |-> FALSE, error |-> "",
     createdChat |-> FALSE, savedMessage |-> FALSE, launched |-> 0,
     organization |-> 0, fetches |-> 0, emoji |-> "", seen |-> 0]

\* Requests arrive one slot after the other.
NextSlot(r) ==
    /\ reqs[r].kind = "idle"
    /\ \A q \in Req : q < r => reqs[q].kind # "idle"

\* The text field of an OCR result: absent (document.text undefined), or the
\* text read off the file.
NoText == "undefined"

OcrTexts == {NoText, "txt"}

ByReq(r) == <<"req", r>>
ByTask(t) == <<"task", t>>

Task(kind, r, message, chat, chatId, mediaType, mediaUrl, class) ==
    [kind |-> kind, by |-> r, message |-> message, chat |-> chat,
     chatId |-> chatId, mediaType |-> mediaType, mediaUrl |-> mediaUrl,
     fileType |-> class.fileType, mimeType |-> class.mimeType,
     pc |-> "download", dl |-> "", ocr |-> "", doc |-> 0,
     downloads |-> 0, ocrs |-> 0, text |-> NoText]

----------------------------------------------------------------------------
(* Webhook: router.post('/') and processMessage *)

\* What the provider posts: a message event, or an event of another kind
\* ('status', or one the handler has no branch for).
WebhookPayloads ==
    {[event |-> "message", data |-> e] : e \in Events}
        \cup {[event |-> kind, data |-> NoData] : kind \in {"status", "chat"}}

\* An acknowledgment sent only for events the handler does not process.
WebhookAckLate(event) == IF event = "message" THEN << >> ELSE <<[status |-> 200, body |-> "OK"]>>

\* res.status(200).send('OK'), the first statement of the handler.
WebhookAck(event) == <<[status |-> 200, body |-> "OK"]>>

\* A handler that hands every event, whatever its kind, to processMessage.
WebhookPostAnyKind(r) ==
    /\ NextSlot(r)
    /\ \E w \in WebhookPayloads :
          reqs' = [reqs EXCEPT ![r] =
                     [IdleReq EXCEPT !.kind = "webhook",
                                     !.event = w.event,
                                     !.data = w.data,
                                     !.response = WebhookAck(w.event),
                                     !.pc = "findChat"]]
    /\ UNCHANGED <<chats, messages, documents, emitted, tasks, url, classified, notifier, organizations, ocr>>

\* POST /webhook up to the first await (Chat.findOne is issued).
WebhookPost(r) ==
    /\ NextSlot(r)
    /\ \E w \in WebhookPayloads :
          reqs' = [reqs EXCEPT ![r] =
                     [IdleReq EXCEPT !.kind = "webhook",
                                     !.event = w.event,
                                     !.data = w.data,
                                     !.response = WebhookAck(w.event),
                                     !.pc = IF w.event = "message"
                                            THEN "findChat" ELSE "done"]]
    /\ UNCHANGED <<chats, messages, documents, emitted, tasks, url, classified, notifier, organizations, ocr>>

\* let chat = await Chat.findOne({ chatId })
ProcessMessageFindChat(r) ==
    /\ reqs[r].kind = "webhook" /\ reqs[r].pc = "findChat"
    /\ LET chat == FindOne(ChatsWith(reqs[r].data.chatId))
       IN  reqs' = [reqs EXCEPT ![r].chat = chat._id,
                                ![r].pc = IF chat._id # 0 THEN "findMessage"
                                          ELSE "getChatInfo"]
    /\ UNCHANGED <<chats, messages, documents, emitted, tasks, url, classified, notifier, organizations, ocr>>

\* A chat resolution that goes on with a made-up chat when the provider
\* cannot be asked.
ProcessMessageGetChatInfoFallback(r) ==
    /\ reqs[r].kind = "webhook" /\ reqs[r].pc = "getChatInfo"
    /\ \E ok \in BOOLEAN :
          reqs' = [reqs EXCEPT ![r].fetch = IF ok THEN "ok" ELSE "fail",
                               ![r].fetches = @ + 1,
                               ![r].pc = "saveChat"]
    /\ UNCHANGED <<chats, messages, documents, emitted, tasks, url, classified, notifier, organizations, ocr>>

\* const whapiChat = await whapiService.getChatInfo(chatId); a failure is
\* caught and logged by processMessage's catch.
ProcessMessageGetChatInfo(r) ==
    /\ reqs[r].kind = "webhook" /\ reqs[r].pc = "getChatInfo"
    /\ \E ok \in BOOLEAN :
          reqs' = [reqs EXCEPT ![r].fetch = IF ok THEN "ok" ELSE "fail",
                               ![r].fetches = @ + 1,
                               ![r].error = IF ok THEN "" ELSE "getChatInfo",
                               ![r].pc = IF ok THEN "saveChat" ELSE "done"]
    /\ UNCHANGED <<chats, messages, documents, emitted, tasks, url, classified, notifier, organizations, ocr>>

\* await chat.save(); io.emit('new_chat', chat)
ProcessMessageSaveChat(r) ==
    /\ reqs[r].kind = "webhook" /\ reqs[r].pc = "saveChat"
    /\ LET chatId == reqs[r].data.chatId
           id == NewId(chats)
       IN  IF ChatKeyFree(chatId)
           THEN /\ chats' = chats \cup
                      {NewChat(id, chatId, 0)}
                /\ emitted' = Emit(emitted,
                      Event("new_chat", Everyone, chatId, 0, 0, ByReq(r)))
                /\ reqs' = [reqs EXCEPT ![r].chat = id,
                                        ![r].createdChat = TRUE,
                                        ![r].pc = "findMessage"]
           ELSE /\ reqs' = [reqs EXCEPT ![r].error = "chat.save",
                                        ![r].pc = "done"]
                /\ UNCHANGED <<chats, emitted>>
    /\ UNCHANGED <<messages, documents, tasks, url, classified, notifier, organizations, ocr>>

\* A dedup check that notifies the viewers again for a Message it found.
ProcessMessageFindMessageRenotify(r) ==
    /\ reqs[r].kind = "webhook" /\ reqs[r].pc = "findMessage"
    /\ LET message == FindOne(MessagesWith(reqs[r].data.id))
       IN  reqs' = [reqs EXCEPT ![r].dedup = (message._id # 0),
                                ![r].message = message._id,
                                ![r].pc = IF message._id # 0 THEN "updateChat"
                                          ELSE "saveMessage"]
    /\ UNCHANGED <<chats, messages, documents, emitted, tasks, url, classified, notifier, organizations, ocr>>

\* let message = await Message.findOne({ messageId: messageData.id })
ProcessMessageFindMessage(r) ==
    /\ reqs[r].kind = "webhook" /\ reqs[r].pc = "findMessage"
    /\ LET message == FindOne(MessagesWith(reqs[r].data.id))
       IN  reqs' = [reqs EXCEPT ![r].dedup = (message._id # 0),
                                ![r].pc = IF message._id # 0 THEN "done"
                                          ELSE "saveMessage"]
    /\ UNCHANGED <<chats, messages, documents, emitted, tasks, url, classified, notifier, organizations, ocr>>

\* mediaType: messageData.mediaType || 'none'
MediaTypeOrNone(mediaType) == IF mediaType = "" THEN "none" ELSE mediaType

\* A default that takes a missing sender for the account's own.
SenderOrUnknownAsMe(sender) == IF sender = "" THEN "me" ELSE sender

\* sender: messageData.sender || 'unknown'
SenderOrUnknown(sender) == IF sender = "" THEN "unknown" ELSE sender

\* sender: response.sender || 'me' (sendMessage)
SenderOrMe(sender) == IF sender = "" THEN "me" ELSE sender

\* An ingestion that tells the viewers of the Message as soon as it is
\* stored, before the chat's last-message reference is.
ProcessMessageSaveMessageNotifying(r) ==
    /\ reqs[r].kind = "webhook" /\ reqs[r].pc = "saveMessage"
    /\ LET d == reqs[r].data
           id == NewId(messages)
       IN  IF MessageKeyFree(d.id)
           THEN /\ messages' = messages \cup
                      {[_id |-> id, messageId |-> d.id, chat |-> reqs[r].chat,
                        sender |-> SenderOrUnknown(d.sender),
                        mediaType |-> MediaTypeOrNone(d.mediaType),
                        mediaUrl |-> d.mediaUrl, reactions |-> d.reactions]}
                /\ emitted' = Emit(emitted,
                      Event("new_message", d.chatId, d.chatId, id, 0, ByReq(r)))
                /\ reqs' = [reqs EXCEPT ![r].message = id,
                                        ![r].savedMessage = TRUE,
                                        ![r].pc = "done"]
           ELSE /\ reqs' = [reqs EXCEPT ![r].error = "message.save",
                                        ![r].pc = "done"]
                /\ UNCHANGED <<messages, emitted>>
    /\ UNCHANGED <<chats, documents, tasks, url, classified, notifier, organizations, ocr>>

\* message = new Message({...}); await message.save()
ProcessMessageSaveMessage(r) ==
    /\ reqs[r].kind = "webhook" /\ reqs[r].pc = "saveMessage"
    /\ LET d == reqs[r].data
           id == NewId(messages)
       IN  IF MessageKeyFree(d.id)
           THEN /\ messages' = messages \cup
                      {[_id |-> id, messageId |-> d.id, chat |-> reqs[r].chat,
                        sender |-> SenderOrUnknown(d.sender),
                        mediaType |-> MediaTypeOrNone(d.mediaType),
                        mediaUrl |-> d.mediaUrl, reactions |-> d.reactions]}
                /\ reqs' = [reqs EXCEPT ![r].message = id,
                                        ![r].savedMessage = TRUE,
                                        ![r].pc = "updateChat"]
           ELSE /\ reqs' = [reqs EXCEPT ![r].error = "message.save",
                                        ![r].pc = "done"]
                /\ UNCHANGED messages
    /\ UNCHANGED <<chats, documents, emitted, tasks, url, classified, notifier, organizations, ocr>>

\* A launch test that takes every media type but 'none' as processable.
ProcessableAnyMedia(mediaType) == mediaType # "none"

\* message.mediaType === 'image' || message.mediaType === 'document'
Processable(mediaType) == mediaType \in {"image", "document"}

\* chat.lastMessage = message._id; await chat.save();
\* io.to(chatId).emit('new_message', message); then, for processable media,
\* processMediaDocument(message, chat, io) is called without await: it runs
\* to its first await (document_processing emitted, type classified, the
\* download issued) before processMessage returns.
ProcessMessageUpdateChat(r) ==
    /\ reqs[r].kind = "webhook" /\ reqs[r].pc = "updateChat"
    /\ LET d == reqs[r].data
           message == CHOOSE m \in messages : m._id = reqs[r].message
           t == Len(tasks) + 1
           launch == Processable(message.mediaType)
           e1 == Emit(emitted,
                   Event("new_message", d.chatId, d.chatId, message._id, 0, ByReq(r)))
       IN  /\ chats' = {IF c._id = reqs[r].chat
                        THEN [c EXCEPT !.lastMessage = message._id] ELSE c
                        : c \in chats}
           /\ IF launch
              THEN /\ emitted' = Emit(e1,
                         Event("document_processing", d.chatId, d.chatId,
                               message._id, 0, ByTask(t)))
                   /\ tasks' = Append(tasks,
                         Task("webhook", r, message._id, reqs[r].chat, d.chatId,
                              message.mediaType, message.mediaUrl,
                              ClassifyWebhook(message.mediaType, message.mediaUrl)))
              ELSE /\ emitted' = e1
                   /\ UNCHANGED tasks
           /\ reqs' = [reqs EXCEPT ![r].launched = IF launch THEN 1 ELSE 0,
                                   ![r].pc = "done"]
    /\ UNCHANGED <<messages, documents, url, classified, notifier, organizations, ocr>>

----------------------------------------------------------------------------
(* processMediaDocument: the webhook-triggered document task *)

IsTask(t, kind, pc) ==
    /\ t \in 1..Len(tasks)
    /\ tasks[t].kind = kind
    /\ tasks[t].pc = pc

ErrorEvent(t) ==
    Event("document_processing_error", tasks[t].chatId, tasks[t].chatId,
          tasks[t].message, 0, ByTask(t))

\* A task whose download failure reaches the ingestion that launched it.
ProcessMediaDocumentDownloadPropagating(t) ==
    /\ IsTask(t, "webhook", "download")
    /\ \E ok \in BOOLEAN :
          IF ok
          THEN /\ tasks' = [tasks EXCEPT ![t].dl = "ok", ![t].downloads = @ + 1, ![t].pc = "ocr"]
               /\ UNCHANGED <<emitted, reqs>>
          ELSE /\ tasks' = [tasks EXCEPT ![t].dl = "fail", ![t].downloads = @ + 1, ![t].pc = "done"]
               /\ emitted' = Emit(emitted, ErrorEvent(t))
               /\ reqs' = [reqs EXCEPT ![tasks[t].by].error = "downloadMedia"]
    /\ UNCHANGED <<chats, messages, documents, url, classified, notifier, organizations, ocr>>

\* A task that issues the download a second time when the first one failed.
ProcessMediaDocumentDownloadRetrying(t) ==
    /\ IsTask(t, "webhook", "download")
    /\ \E ok \in BOOLEAN :
          IF ok
          THEN /\ tasks' = [tasks EXCEPT ![t].dl = "ok", ![t].downloads = @ + 1,
                                         ![t].pc = "ocr"]
               /\ UNCHANGED emitted
          ELSE IF tasks[t].downloads = 0
          THEN /\ tasks' = [tasks EXCEPT ![t].downloads = @ + 1]
               /\ UNCHANGED emitted
          ELSE /\ tasks' = [tasks EXCEPT ![t].dl = "fail", ![t].downloads = @ + 1,
                                         ![t].pc = "done"]
               /\ emitted' = Emit(emitted, ErrorEvent(t))
    /\ UNCHANGED <<chats, messages, documents, reqs, url, classified, notifier, organizations, ocr>>

\* const fileBuffer = await whapiService.downloadMedia(message.mediaUrl);
\* a failure lands in the catch, which emits document_processing_error.
ProcessMediaDocumentDownload(t) ==
    /\ IsTask(t, "webhook", "download")
    /\ \E ok \in BOOLEAN :
          IF ok
          THEN /\ tasks' = [tasks EXCEPT ![t].dl = "ok", ![t].downloads = @ + 1, ![t].pc = "ocr"]
               /\ UNCHANGED emitted
          ELSE /\ tasks' = [tasks EXCEPT ![t].dl = "fail", ![t].downloads = @ + 1, ![t].pc = "done"]
               /\ emitted' = Emit(emitted, ErrorEvent(t))
    /\ UNCHANGED <<chats, messages, documents, reqs, url, classified, notifier, organizations, ocr>>

\* A catch that logs the OCR failure without telling the viewers.
ProcessMediaDocumentOcrSilent(t) ==
    /\ IsTask(t, "webhook", "ocr")
    /\ \E ok \in BOOLEAN :
          IF ok
          THEN \E text \in OcrTexts :
                  tasks' = [tasks EXCEPT ![t].ocr = "ok", ![t].ocrs = @ + 1,
                                         ![t].text = text,
                                         ![t].pc = "saveDocument"]
          ELSE tasks' = [tasks EXCEPT ![t].ocr = "fail", ![t].ocrs = @ + 1,
                                      ![t].pc = "done"]
    /\ UNCHANGED <<chats, messages, documents, emitted, reqs, url, classified, notifier, organizations, ocr>>

\* const processedDocument = await documentAiService.processDocument(...)
ProcessMediaDocumentOcr(t) ==
    /\ IsTask(t, "webhook", "ocr")
    /\ \E ok \in BOOLEAN :
          IF ok
          THEN /\ \E text \in OcrTexts :
                     tasks' = [tasks EXCEPT ![t].ocr = "ok", ![t].ocrs = @ + 1,
                                            ![t].text = text,
                                            ![t].pc = "saveDocument"]
               /\ UNCHANGED emitted
          ELSE /\ tasks' = [tasks EXCEPT ![t].ocr = "fail", ![t].ocrs = @ + 1,
                                         ![t].pc = "done"]
               /\ emitted' = Emit(emitted, ErrorEvent(t))
    /\ UNCHANGED <<chats, messages, documents, reqs, url, classified, notifier, organizations, ocr>>

\* fileName: `file_${message._id}.${fileType}`
FileName(message, fileType) == <<"file_", message, ".", fileType>>

\* rawText: processedDocument.text || ''
TextOrEmpty(text) == IF text = NoText THEN "" ELSE text

\* An insert that files every Document under the classification 'other'.
InsertDocumentUnclassified(t) ==
    LET id == NewId(documents)
    IN  /\ documents' = documents \cup
              {[_id |-> id, originalMessage |-> tasks[t].message,
                chat |-> tasks[t].chat, fileUrl |-> tasks[t].mediaUrl,
                fileType |-> "other",
                fileName |-> FileName(tasks[t].message, "other"),
                rawText |-> TextOrEmpty(tasks[t].text)]}
        /\ tasks' = [tasks EXCEPT ![t].doc = id, ![t].pc = "saved"]

\* An insert that stores the Document without its chat reference.
InsertDocumentDetached(t) ==
    LET id == NewId(documents)
    IN  /\ documents' = documents \cup
              {[_id |-> id, originalMessage |-> tasks[t].message,
                chat |-> 0, fileUrl |-> tasks[t].mediaUrl,
                fileType |-> tasks[t].fileType,
                fileName |-> FileName(tasks[t].message, tasks[t].fileType),
                rawText |-> TextOrEmpty(tasks[t].text)]}
        /\ tasks' = [tasks EXCEPT ![t].doc = id, ![t].pc = "saved"]

\* const document = new Document({...}); await document.save(): the insert.
\* Document has no unique index: the insert always succeeds.
InsertDocument(t) ==
    LET id == NewId(documents)
    IN  /\ documents' = documents \cup
              {[_id |-> id, originalMessage |-> tasks[t].message,
                chat |-> tasks[t].chat, fileUrl |-> tasks[t].mediaUrl,
                fileType |-> tasks[t].fileType,
                fileName |-> FileName(tasks[t].message, tasks[t].fileType),
                rawText |-> TextOrEmpty(tasks[t].text)]}
        /\ tasks' = [tasks EXCEPT ![t].doc = id, ![t].pc = "saved"]

ProcessMediaDocumentSave(t) ==
    /\ IsTask(t, "webhook", "saveDocument")
    /\ InsertDocument(t)
    /\ UNCHANGED <<chats, messages, emitted, reqs, url, classified, notifier, organizations, ocr>>

\* After the save returns: io.to(chat.chatId).emit('document_processed', ...)
ProcessMediaDocumentEmit(t) ==
    /\ IsTask(t, "webhook", "saved")
    /\ emitted' = Emit(emitted,
          Event("document_processed", tasks[t].chatId, tasks[t].chatId,
                tasks[t].message, tasks[t].doc, ByTask(t)))
    /\ tasks' = [tasks EXCEPT ![t].pc = "done"]
    /\ UNCHANGED <<chats, messages, documents, reqs, url, classified, notifier, organizations, ocr>>

----------------------------------------------------------------------------
(* processDocument: the manual trigger, POST /api/documents/process/:id *)

Reply(status, body) == [status |-> status, body |-> body]

\* res.json({ message: '...' }): a JSON body with a message field.
json(message) == [message |-> message]

\* The ids a client can name: those of stored messages, and one of none.
NoSuchId == 0

\* The request arrives; Message.findById(messageId).populate('chat') is issued.
ProcessDocumentPost(r) ==
    /\ NextSlot(r)
    /\ \E id \in {m._id : m \in messages} \cup {NoSuchId} :
          reqs' = [reqs EXCEPT ![r] =
                     [IdleReq EXCEPT !.kind = "manual", !.target = id,
                                     !.pc = "findMessage"]]
    /\ UNCHANGED <<chats, messages, documents, emitted, tasks, url, classified, notifier, organizations, ocr>>

\* A handler that takes every stored message as processable.
ProcessDocumentFindMessageLenient(r) ==
    /\ reqs[r].kind = "manual" /\ reqs[r].pc = "findMessage"
    /\ LET message == FindOne({m \in messages : m._id = reqs[r].target})
       IN  IF message._id = 0
           THEN reqs' = [reqs EXCEPT
                    ![r].response = <<Reply(404, json("Message not found"))>>,
                    ![r].pc = "done"]
           ELSE reqs' = [reqs EXCEPT ![r].message = message._id,
                                     ![r].chat = message.chat,
                                     ![r].pc = "findDocument"]
    /\ UNCHANGED <<chats, messages, documents, emitted, tasks, url, classified, notifier, organizations, ocr>>

\* const message = await Message.findById(messageId).populate('chat');
\* 404 when absent, 400 when it carries no processable media; otherwise
\* Document.findOne is issued.
ProcessDocumentFindMessage(r) ==
    /\ reqs[r].kind = "manual" /\ reqs[r].pc = "findMessage"
    /\ LET message == FindOne({m \in messages : m._id = reqs[r].target})
       IN  IF message._id = 0
           THEN reqs' = [reqs EXCEPT
                    ![r].response = <<Reply(404, json("Message not found"))>>,
                    ![r].pc = "done"]
           ELSE IF message.mediaUrl = << >> \/ ~Processable(message.mediaType)
           THEN reqs' = [reqs EXCEPT
                    ![r].response =
                        <<Reply(400, json("Message does not contain processable media"))>>,
                    ![r].pc = "done"]
           ELSE reqs' = [reqs EXCEPT ![r].message = message._id,
                                     ![r].chat = message.chat,
                                     ![r].pc = "findDocument"]
    /\ UNCHANGED <<chats, messages, documents, emitted, tasks, url, classified, notifier, organizations, ocr>>

\* const existingDocument = await Document.findOne({ originalMessage: message._id })
ExistingDocument(message) == FindOne(DocumentsOf(message))

\* A handler whose background failure reaches the outer catch, which answers
\* the acknowledged request a second time.
ProcessDocumentFindDocumentAnsweringTwice(r) ==
    /\ reqs[r].kind = "manual" /\ reqs[r].pc = "findDocument"
    /\ LET message == CHOOSE m \in messages : m._id = reqs[r].message
           chat == CHOOSE c \in chats : c._id = reqs[r].chat
       IN  IF ExistingDocument(message._id)._id # 0
           THEN /\ reqs' = [reqs EXCEPT
                       ![r].response = <<Reply(400, json("Document already processed"))>>,
                       ![r].dedup = TRUE,
                       ![r].pc = "done"]
                /\ UNCHANGED tasks
           ELSE /\ reqs' = [reqs EXCEPT
                       ![r].response =
                           <<Reply(202, json("Document processing started")),
                             Reply(500, json("whapiService is not defined"))>>,
                       ![r].launched = 1,
                       ![r].pc = "done"]
                /\ tasks' = Append(tasks,
                       [Task("manual", r, message._id, chat._id, chat.chatId,
                             message.mediaType, message.mediaUrl,
                             ClassifyManual(message.mediaType, message.mediaUrl))
                          EXCEPT !.dl = "unbound", !.pc = "done"])
    /\ UNCHANGED <<chats, messages, documents, emitted, url, classified, notifier, organizations, ocr>>

\* if (existingDocument) return 400 'Document already processed'; otherwise
\* the type is classified and 202 is sent. The background part then names
\* whapiService, which documentController.js never requires (its imports are
\* Document, Message, Chat and documentAiService): evaluating the name throws
\* a ReferenceError before any download is issued, and the inner catch emits
\* document_processing_error on the chat's topic, all before the handler
\* reaches an await. The statements after the download are never reached.
ProcessDocumentFindDocument(r) ==
    /\ reqs[r].kind = "manual" /\ reqs[r].pc = "findDocument"
    /\ LET message == CHOOSE m \in messages : m._id = reqs[r].message
           chat == CHOOSE c \in chats : c._id = reqs[r].chat
           t == Len(tasks) + 1
       IN  IF ExistingDocument(message._id)._id # 0
           THEN /\ reqs' = [reqs EXCEPT
                       ![r].response = <<Reply(400, json("Document already processed"))>>,
                       ![r].dedup = TRUE,
                       ![r].pc = "done"]
                /\ UNCHANGED <<tasks, emitted>>
           ELSE /\ reqs' = [reqs EXCEPT
                       ![r].response = <<Reply(202, json("Document processing started"))>>,
                       ![r].launched = 1,
                       ![r].pc = "done"]
                /\ tasks' = Append(tasks,
                       [Task("manual", r, message._id, chat._id, chat.chatId,
                             message.mediaType, message.mediaUrl,
                             ClassifyManual(message.mediaType, message.mediaUrl))
                          EXCEPT !.dl = "unbound", !.pc = "done"])
                /\ emitted' = Emit(emitted,
                       Event("document_processing_error", chat.chatId, chat.chatId,
                             message._id, 0, ByTask(t)))
    /\ UNCHANGED <<chats, messages, documents, url, classified, notifier, organizations, ocr>>

----------------------------------------------------------------------------
(* getMessages: the history fetch, GET /api/messages/:chatId *)

\* What getChatMessages can return for a chat: up to MaxHistory of the
\* provider's messages of that chat, without repetition.
HistoryLists(chatId) ==
    LET own == {e \in Events \cup Archive : e.chatId = chatId}
    IN  {l \in UNION {[1..n -> own] : n \in 0..MaxHistory} :
            \A i, j \in 1..Len(l) : i # j => l[i] # l[j]}

GetMessagesGet(r) ==
    /\ NextSlot(r)
    /\ \E chatId \in ChatIds :
          reqs' = [reqs EXCEPT ![r] =
                     [IdleReq EXCEPT !.kind = "history",
                                     !.data = [NoData EXCEPT !.chatId = chatId],
                                     !.pc = "findChat"]]
    /\ UNCHANGED <<chats, messages, documents, emitted, tasks, url, classified, notifier, organizations, ocr>>

\* let chat = await Chat.findOne({ chatId })
GetMessagesFindChat(r) ==
    /\ reqs[r].kind = "history" /\ reqs[r].pc = "findChat"
    /\ LET chat == FindOne(ChatsWith(reqs[r].data.chatId))
       IN  reqs' = [reqs EXCEPT ![r].chat = chat._id,
                                ![r].pc = IF chat._id # 0 THEN "getChatMessages"
                                          ELSE "getChatInfo"]
    /\ UNCHANGED <<chats, messages, documents, emitted, tasks, url, classified, notifier, organizations, ocr>>

\* A failure of any awaited call of getMessages lands in its catch:
\* res.status(500).json({ message: error.message })
GetMessagesFailed(r, what) ==
    [reqs EXCEPT ![r].error = what,
                 ![r].response = <<Reply(500, json(what))>>,
                 ![r].pc = "done"]

\* const whapiChat = await whapiService.getChatInfo(chatId)
GetMessagesGetChatInfo(r) ==
    /\ reqs[r].kind = "history" /\ reqs[r].pc = "getChatInfo"
    /\ \E ok \in BOOLEAN :
          reqs' = IF ok
                  THEN [reqs EXCEPT ![r].fetch = "ok", ![r].fetches = @ + 1, ![r].pc = "saveChat"]
                  ELSE [GetMessagesFailed(r, "getChatInfo") EXCEPT ![r].fetch = "fail", ![r].fetches = @ + 1]
    /\ UNCHANGED <<chats, messages, documents, emitted, tasks, url, classified, notifier, organizations, ocr>>

\* await chat.save(): no new_chat is emitted on this path.
GetMessagesSaveChat(r) ==
    /\ reqs[r].kind = "history" /\ reqs[r].pc = "saveChat"
    /\ LET chatId == reqs[r].data.chatId
           id == NewId(chats)
       IN  IF ChatKeyFree(chatId)
           THEN /\ chats' = chats \cup
                      {NewChat(id, chatId, 0)}
                /\ reqs' = [reqs EXCEPT ![r].chat = id,
                                        ![r].createdChat = TRUE,
                                        ![r].pc = "getChatMessages"]
           ELSE /\ reqs' = GetMessagesFailed(r, "chat.save")
                /\ UNCHANGED chats
    /\ UNCHANGED <<messages, documents, emitted, tasks, url, classified, notifier, organizations, ocr>>

\* The loop `for (const msg of whapiMessages)` from position i on: the next
\* Message.findOne is issued, or the list is exhausted and 200 is sent.
GetMessagesLoop(r, i, list) ==
    IF i <= Len(list)
    THEN [reqs EXCEPT ![r].list = list, ![r].idx = i, ![r].pc = "findMessage"]
    ELSE [reqs EXCEPT ![r].list = list, ![r].idx = i,
                      ![r].response = <<Reply(200, "messages")>>,
                      ![r].pc = "done"]

\* const whapiMessages = await whapiService.getChatMessages(chatId, limit, before)
GetMessagesFetch(r) ==
    /\ reqs[r].kind = "history" /\ reqs[r].pc = "getChatMessages"
    /\ \/ \E list \in HistoryLists(reqs[r].data.chatId) :
             reqs' = GetMessagesLoop(r, 1, list)
       \/ reqs' = GetMessagesFailed(r, "getChatMessages")
    /\ UNCHANGED <<chats, messages, documents, emitted, tasks, url, classified, notifier, organizations, ocr>>

\* A history fetch that runs the document task again for a processable
\* Message it finds stored.
GetMessagesFindMessageReprocess(r) ==
    /\ reqs[r].kind = "history" /\ reqs[r].pc = "findMessage"
    /\ LET msg == reqs[r].list[reqs[r].idx]
           message == FindOne(MessagesWith(msg.id))
           chatId == reqs[r].data.chatId
       IN  IF message._id = 0
           THEN /\ reqs' = [reqs EXCEPT ![r].pc = "saveMessage"]
                /\ UNCHANGED tasks
           ELSE /\ reqs' = GetMessagesLoop(r, reqs[r].idx + 1, reqs[r].list)
                /\ tasks' = IF Processable(message.mediaType)
                            THEN Append(tasks,
                                   Task("history", r, message._id, reqs[r].chat, chatId,
                                        message.mediaType, message.mediaUrl,
                                        ClassifyHistory(message.mediaType,
                                                        message.mediaUrl)))
                            ELSE tasks
    /\ UNCHANGED <<chats, messages, documents, emitted, url, classified, notifier, organizations, ocr>>

\* let message = await Message.findOne({ messageId: msg.id })
GetMessagesFindMessage(r) ==
    /\ reqs[r].kind = "history" /\ reqs[r].pc = "findMessage"
    /\ LET msg == reqs[r].list[reqs[r].idx]
           message == FindOne(MessagesWith(msg.id))
       IN  reqs' = IF message._id # 0
                   THEN GetMessagesLoop(r, reqs[r].idx + 1, reqs[r].list)
                   ELSE [reqs EXCEPT ![r].pc = "saveMessage"]
    /\ UNCHANGED <<chats, messages, documents, emitted, tasks, url, classified, notifier, organizations, ocr>>

\* message = new Message({...}); await message.save(); for processable
\* media document_processing is emitted and this._processMediaDocument is
\* called without await (it classifies and issues the download); then the
\* loop goes on.
GetMessagesSaveMessage(r) ==
    /\ reqs[r].kind = "history" /\ reqs[r].pc = "saveMessage"
    /\ LET msg == reqs[r].list[reqs[r].idx]
           id == NewId(messages)
           mediaType == MediaTypeOrNone(msg.mediaType)
           chatId == reqs[r].data.chatId
           t == Len(tasks) + 1
       IN  IF MessageKeyFree(msg.id)
           THEN /\ messages' = messages \cup
                      {[_id |-> id, messageId |-> msg.id, chat |-> reqs[r].chat,
                        sender |-> SenderOrUnknown(msg.sender),
                        mediaType |-> mediaType, mediaUrl |-> msg.mediaUrl,
                        reactions |-> msg.reactions]}
                /\ IF Processable(mediaType)
                   THEN /\ emitted' = Emit(emitted,
                              Event("document_processing", chatId, chatId, id, 0,
                                    ByTask(t)))
                        /\ tasks' = Append(tasks,
                              Task("history", r, id, reqs[r].chat, chatId,
                                   mediaType, msg.mediaUrl,
                                   ClassifyHistory(mediaType, msg.mediaUrl)))
                   ELSE UNCHANGED <<emitted, tasks>>
                /\ reqs' = [GetMessagesLoop(r, reqs[r].idx + 1, reqs[r].list)
                               EXCEPT ![r].savedMessage = TRUE,
                                      ![r].launched =
                                          @ + IF Processable(mediaType) THEN 1 ELSE 0]
           ELSE /\ reqs' = GetMessagesFailed(r, "message.save")
                /\ UNCHANGED <<messages, emitted, tasks>>
    /\ UNCHANGED <<chats, documents, url, classified, notifier, organizations, ocr>>

\* _processMediaDocument: await whapiService.downloadMedia(...); its catch
\* only logs.
HistoryProcessDownload(t) ==
    /\ IsTask(t, "history", "download")
    /\ \E ok \in BOOLEAN :
          tasks' = IF ok
                   THEN [tasks EXCEPT ![t].dl = "ok", ![t].downloads = @ + 1, ![t].pc = "ocr"]
                   ELSE [tasks EXCEPT ![t].dl = "fail", ![t].downloads = @ + 1, ![t].pc = "done"]
    /\ UNCHANGED <<chats, messages, documents, emitted, reqs, url, classified, notifier, organizations, ocr>>

\* await documentAiService.processDocument(fileBuffer, mimeType)
HistoryProcessOcr(t) ==
    /\ IsTask(t, "history", "ocr")
    /\ \E ok \in BOOLEAN :
          IF ok
          THEN \E text \in OcrTexts :
                  tasks' = [tasks EXCEPT ![t].ocr = "ok", ![t].ocrs = @ + 1,
                                         ![t].text = text,
                                         ![t].pc = "saveDocument"]
          ELSE tasks' = [tasks EXCEPT ![t].ocr = "fail", ![t].ocrs = @ + 1,
                                      ![t].pc = "done"]
    /\ UNCHANGED <<chats, messages, documents, emitted, reqs, url, classified, notifier, organizations, ocr>>

\* await document.save()
HistoryProcessSave(t) ==
    /\ IsTask(t, "history", "saveDocument")
    /\ InsertDocument(t)
    /\ UNCHANGED <<chats, messages, emitted, reqs, url, classified, notifier, organizations, ocr>>

\* const io = require('../app').io; io.to(chat.chatId).emit(...): app.js
\* exports { app, server } only, so io is undefined, io.to throws a
\* TypeError, and the catch logs it: nothing is emitted.
HistoryProcessEmit(t) ==
    /\ IsTask(t, "history", "saved")
    /\ tasks' = [tasks EXCEPT ![t].pc = "done"]
    /\ UNCHANGED <<chats, messages, documents, emitted, reqs, url, classified, notifier, organizations, ocr>>

----------------------------------------------------------------------------
(* sendMessage: POST /api/messages/:chatId *)

\* A failure of any awaited call lands in the handler's catch:
\* res.status(500).json({ message: error.message })
Failed500(r, what) ==
    [reqs EXCEPT ![r].error = what,
                 ![r].response = <<Reply(500, json(what))>>,
                 ![r].pc = "done"]

\* The request arrives; Chat.findOne({ chatId }) is issued.
SendMessagePost(r) ==
    /\ NextSlot(r)
    /\ \E e \in OwnMessages :
          reqs' = [reqs EXCEPT ![r] =
                     [IdleReq EXCEPT !.kind = "send",
                                     !.data = [e EXCEPT !.id = ""],
                                     !.pc = "findChat"]]
    /\ UNCHANGED <<chats, messages, documents, emitted, tasks, url, classified, notifier, organizations, ocr>>

\* let chat = await Chat.findOne({ chatId })
SendMessageFindChat(r) ==
    /\ reqs[r].kind = "send" /\ reqs[r].pc = "findChat"
    /\ LET chat == FindOne(ChatsWith(reqs[r].data.chatId))
       IN  reqs' = [reqs EXCEPT ![r].chat = chat._id,
                                ![r].pc = IF chat._id # 0 THEN "send"
                                          ELSE "getChatInfo"]
    /\ UNCHANGED <<chats, messages, documents, emitted, tasks, url, classified, notifier, organizations, ocr>>

\* const whapiChat = await whapiService.getChatInfo(chatId)
SendMessageGetChatInfo(r) ==
    /\ reqs[r].kind = "send" /\ reqs[r].pc = "getChatInfo"
    /\ \E ok \in BOOLEAN :
          reqs' = IF ok
                  THEN [reqs EXCEPT ![r].fetch = "ok", ![r].fetches = @ + 1, ![r].pc = "saveChat"]
                  ELSE [Failed500(r, "getChatInfo") EXCEPT ![r].fetch = "fail", ![r].fetches = @ + 1]
    /\ UNCHANGED <<chats, messages, documents, emitted, tasks, url, classified, notifier, organizations, ocr>>

\* chat = new Chat({...}); await chat.save()
SendMessageSaveChat(r) ==
    /\ reqs[r].kind = "send" /\ reqs[r].pc = "saveChat"
    /\ LET chatId == reqs[r].data.chatId
           id == NewId(chats)
       IN  IF ChatKeyFree(chatId)
           THEN /\ chats' = chats \cup {NewChat(id, chatId, 0)}
                /\ reqs' = [reqs EXCEPT ![r].chat = id,
                                        ![r].createdChat = TRUE,
                                        ![r].pc = "send"]
           ELSE /\ reqs' = Failed500(r, "chat.save")
                /\ UNCHANGED chats
    /\ UNCHANGED <<messages, documents, emitted, tasks, url, classified, notifier, organizations, ocr>>

\* response = await whapiService.sendMediaMessage / sendMessageWithMentions
\* / sendTextMessage(...): the provider accepts the message and returns its
\* id, or the call throws.
SendMessageSend(r) ==
    /\ reqs[r].kind = "send" /\ reqs[r].pc = "send"
    /\ \/ \E e \in OwnMessages :
             /\ [e EXCEPT !.id = ""] = reqs[r].data
             /\ reqs' = [reqs EXCEPT ![r].data.id = e.id,
                                     ![r].pc = "saveMessage"]
       \/ reqs' = Failed500(r, "send")
    /\ UNCHANGED <<chats, messages, documents, emitted, tasks, url, classified, notifier, organizations, ocr>>

\* const message = new Message({ messageId: response.messageId, ... });
\* await message.save()
SendMessageSaveMessage(r) ==
    /\ reqs[r].kind = "send" /\ reqs[r].pc = "saveMessage"
    /\ LET d == reqs[r].data
           id == NewId(messages)
       IN  IF MessageKeyFree(d.id)
           THEN /\ messages' = messages \cup
                      {[_id |-> id, messageId |-> d.id, chat |-> reqs[r].chat,
                        sender |-> SenderOrMe(d.sender),
                        mediaType |-> MediaTypeOrNone(d.mediaType),
                        mediaUrl |-> d.mediaUrl, reactions |-> << >>]}
                /\ reqs' = [reqs EXCEPT ![r].message = id,
                                        ![r].savedMessage = TRUE,
                                        ![r].pc = "updateChat"]
           ELSE /\ reqs' = Failed500(r, "message.save")
                /\ UNCHANGED messages
    /\ UNCHANGED <<chats, documents, emitted, tasks, url, classified, notifier, organizations, ocr>>

\* A send that answers without recording the sent Message as the chat's
\* last one.
SendMessageUpdateChatAnswerOnly(r) ==
    /\ reqs[r].kind = "send" /\ reqs[r].pc = "updateChat"
    /\ reqs' = [reqs EXCEPT ![r].response = <<Reply(201, "message")>>,
                            ![r].pc = "done"]
    /\ UNCHANGED <<chats, messages, documents, emitted, tasks, url, classified, notifier, organizations, ocr>>

\* chat.lastMessage = message._id; await chat.save();
\* res.status(201).json(message)
SendMessageUpdateChat(r) ==
    /\ reqs[r].kind = "send" /\ reqs[r].pc = "updateChat"
    /\ chats' = {IF c._id = reqs[r].chat
                 THEN [c EXCEPT !.lastMessage = reqs[r].message] ELSE c
                 : c \in chats}
    /\ reqs' = [reqs EXCEPT ![r].response = <<Reply(201, "message")>>,
                            ![r].pc = "done"]
    /\ UNCHANGED <<messages, documents, emitted, tasks, url, classified, notifier, organizations, ocr>>

----------------------------------------------------------------------------
(* reactToMessage: POST /api/messages/:chatId/react/:messageId *)

\* The emoji a client can send; "" is a body without one.
Emojis == {"+", "-"}

\* Position of the account's reaction in a reactions array, 0 when it has
\* none: message.reactions.find(r => r.userId === 'me')
FindMine(reactions) ==
    LET mine == {i \in 1..Len(reactions) : reactions[i].userId = "me"}
    IN  IF mine = {} THEN 0 ELSE CHOOSE i \in mine : \A j \in mine : i <= j

\* The request arrives: 400 without an emoji, otherwise the provider is
\* asked to react.
ReactToMessagePost(r) ==
    /\ NextSlot(r)
    /\ \E messageId \in MessageIds, emoji \in Emojis \cup {""} :
          reqs' = [reqs EXCEPT ![r] =
                     IF emoji = ""
                     THEN [IdleReq EXCEPT
                             !.kind = "react",
                             !.data = [NoData EXCEPT !.id = messageId],
                             !.response = <<Reply(400, json("Emoji is required"))>>,
                             !.pc = "done"]
                     ELSE [IdleReq EXCEPT
                             !.kind = "react",
                             !.data = [NoData EXCEPT !.id = messageId],
                             !.emoji = emoji,
                             !.pc = "react"]]
    /\ UNCHANGED <<chats, messages, documents, emitted, tasks, url, classified, notifier, organizations, ocr>>

\* await whapiService.reactToMessage(chatId, messageId, emoji); then
\* Message.findOne({ messageId }) is issued.
ReactToMessageReact(r) ==
    /\ reqs[r].kind = "react" /\ reqs[r].pc = "react"
    /\ \E ok \in BOOLEAN :
          reqs' = IF ok THEN [reqs EXCEPT ![r].pc = "findMessage"]
                  ELSE Failed500(r, "reactToMessage")
    /\ UNCHANGED <<chats, messages, documents, emitted, tasks, url, classified, notifier, organizations, ocr>>

\* const message = await Message.findOne({ messageId }): without a Message
\* 200 is sent; with one, the account's reaction is replaced in, or pushed
\* onto, the array of the loaded Message, and message.save() is issued.
ReactToMessageFindMessage(r) ==
    /\ reqs[r].kind = "react" /\ reqs[r].pc = "findMessage"
    /\ LET message == FindOne(MessagesWith(reqs[r].data.id))
       IN  reqs' = IF message._id = 0
                   THEN [reqs EXCEPT ![r].response = <<Reply(200, "success")>>,
                                     ![r].pc = "done"]
                   ELSE [reqs EXCEPT ![r].message = message._id,
                                     ![r].idx = FindMine(message.reactions),
                                     ![r].seen = Len(message.reactions),
                                     ![r].pc = "saveMessage"]
    /\ UNCHANGED <<chats, messages, documents, emitted, tasks, url, classified, notifier, organizations, ocr>>

\* The stored reactions after the save of what the handler did in memory: a
\* push appends to the stored array, a replaced emoji is set at its position.
React(reactions, idx, emoji) ==
    IF idx = 0 THEN Append(reactions, [userId |-> "me", emoji |-> emoji])
    ELSE [reactions EXCEPT ![idx].emoji = emoji]

\* A save that also rewrites the sender of the Message as the account.
ReactToMessageSaveAsSender(r) ==
    /\ reqs[r].kind = "react" /\ reqs[r].pc = "saveMessage"
    /\ messages' = {IF m._id = reqs[r].message
                    THEN [m EXCEPT !.reactions = React(@, reqs[r].idx, reqs[r].emoji),
                                   !.sender = "me"]
                    ELSE m : m \in messages}
    /\ reqs' = [reqs EXCEPT ![r].response = <<Reply(200, "success")>>,
                            ![r].pc = "done"]
    /\ UNCHANGED <<chats, documents, emitted, tasks, url, classified, notifier, organizations, ocr>>

\* await message.save(); res.status(200).json({ success: true }).  Only the
\* reactions path is modified, so only it is written.  A replaced emoji is
\* written under Mongoose's version check: when the array grew since it was
\* loaded the save may be rejected (VersionError), which the catch answers
\* with 500.
ReactToMessageSave(r) ==
    /\ reqs[r].kind = "react" /\ reqs[r].pc = "saveMessage"
    /\ LET stored == CHOOSE m \in messages : m._id = reqs[r].message
       IN  \/ /\ messages' = {IF m._id = reqs[r].message
                              THEN [m EXCEPT !.reactions =
                                       React(@, reqs[r].idx, reqs[r].emoji)]
                              ELSE m : m \in messages}
              /\ reqs' = [reqs EXCEPT ![r].response = <<Reply(200, "success")>>,
                                      ![r].pc = "done"]
           \/ /\ reqs[r].idx # 0
              /\ Len(stored.reactions) # reqs[r].seen
              /\ reqs' = Failed500(r, "message.save")
              /\ UNCHANGED messages
    /\ UNCHANGED <<chats, documents, emitted, tasks, url, classified, notifier, organizations, ocr>>

----------------------------------------------------------------------------
(* getChatById: GET /api/chats/:id, chat controller *)

\* The request arrives; Chat.findOne({ chatId }).populate(...) is issued.
GetChatByIdGet(r) ==
    /\ NextSlot(r)
    /\ \E chatId \in LookupIds :
          reqs' = [reqs EXCEPT ![r] =
                     [IdleReq EXCEPT !.kind = "lookup",
                                     !.data = [NoData EXCEPT !.chatId = chatId],
                                     !.pc = "findChat"]]
    /\ UNCHANGED <<chats, messages, documents, emitted, tasks, url, classified, notifier, organizations, ocr>>

\* let chat = await Chat.findOne({ chatId }); the provider is asked next,
\* whether the chat was found or not.
GetChatByIdFindChat(r) ==
    /\ reqs[r].kind = "lookup" /\ reqs[r].pc = "findChat"
    /\ LET chat == FindOne(ChatsWith(reqs[r].data.chatId))
       IN  reqs' = [reqs EXCEPT ![r].chat = chat._id,
                                ![r].dedup = (chat._id # 0),
                                ![r].pc = "getChatInfo"]
    /\ UNCHANGED <<chats, messages, documents, emitted, tasks, url, classified, notifier, organizations, ocr>>

\* const whapiChat = await whapiService.getChatInfo(chatId); a failure lands
\* in the catch: res.status(500).json({ message: error.message })
GetChatByIdGetChatInfo(r) ==
    /\ reqs[r].kind = "lookup" /\ reqs[r].pc = "getChatInfo"
    /\ \E ok \in BOOLEAN :
          reqs' = IF ok
                  THEN [reqs EXCEPT ![r].fetch = "ok", ![r].fetches = @ + 1, ![r].pc = "saveChat"]
                  ELSE [Failed500(r, "getChatInfo") EXCEPT ![r].fetch = "fail", ![r].fetches = @ + 1]
    /\ UNCHANGED <<chats, messages, documents, emitted, tasks, url, classified, notifier, organizations, ocr>>

\* if (!chat) { chat = new Chat({...}) } else { chat.name = ...; }
\* await chat.save(); res.status(200).json(chat).  The update of a found
\* chat writes its name, group flag, participants and picture only.
GetChatByIdSave(r) ==
    /\ reqs[r].kind = "lookup" /\ reqs[r].pc = "saveChat"
    /\ LET chatId == reqs[r].data.chatId
           id == NewId(chats)
       IN  IF reqs[r].chat # 0
           THEN /\ reqs' = [reqs EXCEPT
                       ![r].response = <<Reply(200, FindOne(ChatsWith(chatId)))>>,
                       ![r].pc = "done"]
                /\ UNCHANGED chats
           ELSE IF ChatKeyFree(chatId)
           THEN /\ chats' = chats \cup {NewChat(id, chatId, 0)}
                /\ reqs' = [reqs EXCEPT
                       ![r].chat = id,
                       ![r].createdChat = TRUE,
                       ![r].response = <<Reply(200, NewChat(id, chatId, 0))>>,
                       ![r].pc = "done"]
           ELSE /\ reqs' = Failed500(r, "chat.save")
                /\ UNCHANGED chats
    /\ UNCHANGED <<messages, documents, emitted, tasks, url, classified, notifier, organizations, ocr>>

----------------------------------------------------------------------------
(* app.get('/api/chats/:id') of index.js, the single-file server *)

\* chatId.includes('@g.us'), on the chat ids of this model.
IsGroupId(chatId) == chatId = GroupChatId

\* chatId.split('@')[0], on the chat ids of this model.
BeforeAt(chatId) == IF chatId = GroupChatId THEN "g1" ELSE chatId

\* The minimal chat returned when the provider cannot be asked: the
\* requested id, a name derived from it, the group flag, no participants
\* and _id: null.
Placeholder(chatId) ==
    [chatId |-> chatId,
     name |-> IF IsGroupId(chatId) THEN <<"Group ", BeforeAt(chatId)>>
              ELSE <<"Chat ", chatId>>,
     isGroup |-> IsGroupId(chatId),
     participants |-> << >>,
     _id |-> 0]

ChatLookupGet(r) ==
    /\ NextSlot(r)
    /\ \E chatId \in LookupIds :
          reqs' = [reqs EXCEPT ![r] =
                     [IdleReq EXCEPT !.kind = "lookupIndex",
                                     !.data = [NoData EXCEPT !.chatId = chatId],
                                     !.pc = "findChat"]]
    /\ UNCHANGED <<chats, messages, documents, emitted, tasks, url, classified, notifier, organizations, ocr>>

\* let chat = await Chat.findOne({ chatId }): a found chat is returned, for
\* an absent one the provider is asked.
ChatLookupFindChat(r) ==
    /\ reqs[r].kind = "lookupIndex" /\ reqs[r].pc = "findChat"
    /\ LET chat == FindOne(ChatsWith(reqs[r].data.chatId))
       IN  reqs' = IF chat._id # 0
                   THEN [reqs EXCEPT ![r].chat = chat._id,
                                     ![r].dedup = TRUE,
                                     ![r].response = <<Reply(200, chat)>>,
                                     ![r].pc = "done"]
                   ELSE [reqs EXCEPT ![r].pc = "getChatInfo"]
    /\ UNCHANGED <<chats, messages, documents, emitted, tasks, url, classified, notifier, organizations, ocr>>

\* await whapiRequest(`/group/${chatId}`) or whapiRequest(`/chat/${chatId}`);
\* a failure lands in the inner catch, which answers 200 with the
\* placeholder.
ChatLookupWhapiRequest(r) ==
    /\ reqs[r].kind = "lookupIndex" /\ reqs[r].pc = "getChatInfo"
    /\ \E ok \in BOOLEAN :
          reqs' = IF ok
                  THEN [reqs EXCEPT ![r].fetch = "ok", ![r].fetches = @ + 1, ![r].pc = "saveChat"]
                  ELSE [reqs EXCEPT
                          ![r].fetch = "fail", ![r].fetches = @ + 1,
                          ![r].error = "getChatInfo",
                          ![r].response =
                              <<Reply(200, Placeholder(reqs[r].data.chatId))>>,
                          ![r].pc = "done"]
    /\ UNCHANGED <<chats, messages, documents, emitted, tasks, url, classified, notifier, organizations, ocr>>

\* chat = new Chat({...}); await chat.save() inside the inner try: a
\* rejected insert is answered with the placeholder as well.
ChatLookupSave(r) ==
    /\ reqs[r].kind = "lookupIndex" /\ reqs[r].pc = "saveChat"
    /\ LET chatId == reqs[r].data.chatId
           id == NewId(chats)
       IN  IF ChatKeyFree(chatId)
           THEN /\ chats' = chats \cup {NewChat(id, chatId, 0)}
                /\ reqs' = [reqs EXCEPT
                       ![r].chat = id,
                       ![r].createdChat = TRUE,
                       ![r].response = <<Reply(200, NewChat(id, chatId, 0))>>,
                       ![r].pc = "done"]
           ELSE /\ reqs' = [reqs EXCEPT
                       ![r].error = "chat.save",
                       ![r].response = <<Reply(200, Placeholder(chatId))>>,
                       ![r].pc = "done"]
                /\ UNCHANGED chats
    /\ UNCHANGED <<messages, documents, emitted, tasks, url, classified, notifier, organizations, ocr>>

----------------------------------------------------------------------------
(* assignToOrganization: POST /api/chats/assign *)

\* The request arrives: 400 when the chat id or the organization id is
\* missing, otherwise Chat.findOne({ chatId }) is issued.
AssignToOrganizationPost(r) ==
    /\ NextSlot(r)
    /\ \E chatId \in ChatIds, organizationId \in OrganizationIds \cup {0} :
          reqs' = [reqs EXCEPT ![r] =
                     IF organizationId = 0
                     THEN [IdleReq EXCEPT
                             !.kind = "assign",
                             !.data = [NoData EXCEPT !.chatId = chatId],
                             !.response = <<Reply(400,
                                 json("Chat ID and Organization ID are required"))>>,
                             !.pc = "done"]
                     ELSE [IdleReq EXCEPT
                             !.kind = "assign",
                             !.data = [NoData EXCEPT !.chatId = chatId],
                             !.organization = organizationId,
                             !.pc = "findChat"]]
    /\ UNCHANGED <<chats, messages, documents, emitted, tasks, url, classified, notifier, organizations, ocr>>

\* let chat = await Chat.findOne({ chatId })
AssignToOrganizationFindChat(r) ==
    /\ reqs[r].kind = "assign" /\ reqs[r].pc = "findChat"
    /\ LET chat == FindOne(ChatsWith(reqs[r].data.chatId))
       IN  reqs' = [reqs EXCEPT ![r].chat = chat._id,
                                ![r].dedup = (chat._id # 0),
                                ![r].pc = IF chat._id # 0 THEN "saveChat"
                                          ELSE "getChatInfo"]
    /\ UNCHANGED <<chats, messages, documents, emitted, tasks, url, classified, notifier, organizations, ocr>>

\* const whapiChat = await whapiService.getChatInfo(chatId)
AssignToOrganizationGetChatInfo(r) ==
    /\ reqs[r].kind = "assign" /\ reqs[r].pc = "getChatInfo"
    /\ \E ok \in BOOLEAN :
          reqs' = IF ok
                  THEN [reqs EXCEPT ![r].fetch = "ok", ![r].fetches = @ + 1, ![r].pc = "saveChat"]
                  ELSE [Failed500(r, "getChatInfo") EXCEPT ![r].fetch = "fail", ![r].fetches = @ + 1]
    /\ UNCHANGED <<chats, messages, documents, emitted, tasks, url, classified, notifier, organizations, ocr>>

\* chat.organization = organizationId; await chat.save();
\* res.status(200).json(chat): an update of the found chat's organization,
\* or the insert of the new chat with the organization set.
AssignToOrganizationSave(r) ==
    /\ reqs[r].kind = "assign" /\ reqs[r].pc = "saveChat"
    /\ LET chatId == reqs[r].data.chatId
           id == NewId(chats)
           org == reqs[r].organization
       IN  IF reqs[r].chat # 0
           THEN /\ chats' = {IF c._id = reqs[r].chat
                             THEN [c EXCEPT !.organization = org] ELSE c
                             : c \in chats}
                /\ reqs' = [reqs EXCEPT ![r].response = <<Reply(200, "chat")>>,
                                        ![r].pc = "done"]
           ELSE IF ChatKeyFree(chatId)
           THEN /\ chats' = chats \cup {NewChat(id, chatId, org)}
                /\ reqs' = [reqs EXCEPT ![r].chat = id,
                                        ![r].createdChat = TRUE,
                                        ![r].response = <<Reply(200, "chat")>>,
                                        ![r].pc = "done"]
           ELSE /\ reqs' = Failed500(r, "chat.save")
                /\ UNCHANGED chats
    /\ UNCHANGED <<messages, documents, emitted, tasks, url, classified, notifier, organizations, ocr>>

----------------------------------------------------------------------------
(* Organizations: the organization controller behind the router of         *)
(* organizationRoutes.js, and the handlers index.js defines on the same     *)
(* paths                                                                    *)

\* The organization ids a client can put in the path.
OrgParams == {1, 2}

\* req.params of a route '/:id' or '/:id/chats/:chatId'.
RouteParams(id, chatId) == [id |-> id, chatId |-> chatId]

\* const { name } = req.params: the parameter of that name, undefined (0)
\* when the route declares none.
Param(params, name) == IF name \in DOMAIN params THEN params[name] ELSE 0

\* Organization.findById(id): the row, or none; findById(undefined) finds
\* none.
FindById(id) == FindOne({o \in organizations : o._id = id})

NotFound404(r) ==
    [reqs EXCEPT ![r].response = <<Reply(404, json("Organization not found"))>>,
                 ![r].pc = "done"]

\* Chat.updateMany({ organization: id }, { $unset: { organization: 1 } })
UnsetOrganization(id) ==
    {IF c.organization = id THEN [c EXCEPT !.organization = 0] ELSE c : c \in chats}

\* Array.prototype.includes and the filter that drops one value.
Includes(list, x) == \E i \in 1..Len(list) : list[i] = x
Without(list, x) == SelectSeq(list, LAMBDA y : y # x)

\* DELETE /api/organizations/:id, controller: the request arrives and
\* Organization.findById(req.params.id) is issued.
DeleteOrganizationDelete(r) ==
    /\ NextSlot(r)
    /\ \E id \in OrgParams :
          reqs' = [reqs EXCEPT ![r] =
                     [IdleReq EXCEPT !.kind = "deleteOrganization",
                                     !.organization = Param(RouteParams(id, ""), "id"),
                                     !.pc = "findOrganization"]]
    /\ UNCHANGED <<chats, messages, documents, emitted, tasks, url, classified,
                   notifier, organizations, ocr>>

\* 404 without the Organization; with it Chat.updateMany is issued.
DeleteOrganizationFind(r) ==
    /\ reqs[r].kind = "deleteOrganization" /\ reqs[r].pc = "findOrganization"
    /\ reqs' = IF FindById(reqs[r].organization)._id = 0
               THEN NotFound404(r)
               ELSE [reqs EXCEPT ![r].pc = "updateMany"]
    /\ UNCHANGED <<chats, messages, documents, emitted, tasks, url, classified,
                   notifier, organizations, ocr>>

\* await Chat.updateMany(...): the references to the Organization are
\* cleared; Organization.deleteOne is issued.
DeleteOrganizationUpdateMany(r) ==
    /\ reqs[r].kind = "deleteOrganization" /\ reqs[r].pc = "updateMany"
    /\ chats' = UnsetOrganization(reqs[r].organization)
    /\ reqs' = [reqs EXCEPT ![r].pc = "deleteOne"]
    /\ UNCHANGED <<messages, documents, emitted, tasks, url, classified,
                   notifier, organizations, ocr>>

\* await Organization.deleteOne({ _id }); res.status(200).json(...)
DeleteOrganizationDeleteOne(r) ==
    /\ reqs[r].kind = "deleteOrganization" /\ reqs[r].pc = "deleteOne"
    /\ organizations' = {o \in organizations : o._id # reqs[r].organization}
    /\ reqs' = [reqs EXCEPT ![r].response = <<Reply(200, "deleted")>>,
                            ![r].pc = "done"]
    /\ UNCHANGED <<chats, messages, documents, emitted, tasks, url, classified,
                   notifier, ocr>>

\* app.delete('/api/organizations/:id'), index.js: the request arrives and
\* Organization.findById(req.params.id) is issued.
InlineDeleteOrganizationDelete(r) ==
    /\ NextSlot(r)
    /\ \E id \in OrgParams :
          reqs' = [reqs EXCEPT ![r] =
                     [IdleReq EXCEPT !.kind = "inlineDeleteOrganization",
                                     !.organization = Param(RouteParams(id, ""), "id"),
                                     !.pc = "findOrganization"]]
    /\ UNCHANGED <<chats, messages, documents, emitted, tasks, url, classified,
                   notifier, organizations, ocr>>

\* 404 without the Organization; with it Organization.deleteOne is issued.
InlineDeleteOrganizationFind(r) ==
    /\ reqs[r].kind = "inlineDeleteOrganization" /\ reqs[r].pc = "findOrganization"
    /\ reqs' = IF FindById(reqs[r].organization)._id = 0
               THEN NotFound404(r)
               ELSE [reqs EXCEPT ![r].pc = "deleteOne"]
    /\ UNCHANGED <<chats, messages, documents, emitted, tasks, url, classified,
                   notifier, organizations, ocr>>

\* await Organization.deleteOne({ _id }): here the Organization goes first;
\* Chat.updateMany is issued.
InlineDeleteOrganizationDeleteOne(r) ==
    /\ reqs[r].kind = "inlineDeleteOrganization" /\ reqs[r].pc = "deleteOne"
    /\ organizations' = {o \in organizations : o._id # reqs[r].organization}
    /\ reqs' = [reqs EXCEPT ![r].pc = "updateMany"]
    /\ UNCHANGED <<chats, messages, documents, emitted, tasks, url, classified,
                   notifier, ocr>>

\* await Chat.updateMany(...); res.status(200).json(...)
InlineDeleteOrganizationUpdateMany(r) ==
    /\ reqs[r].kind = "inlineDeleteOrganization" /\ reqs[r].pc = "updateMany"
    /\ chats' = UnsetOrganization(reqs[r].organization)
    /\ reqs' = [reqs EXCEPT ![r].response = <<Reply(200, "deleted")>>,
                            ![r].pc = "done"]
    /\ UNCHANGED <<messages, documents, emitted, tasks, url, classified,
                   notifier, organizations, ocr>>

\* POST /api/organizations/:id/chats/:chatId, controller: the handler reads
\* `const { organizationId, chatId } = req.params` where the route declares
\* the parameters id and chatId, and issues
\* Organization.findById(organizationId).
AddChatToOrganizationPost(r) ==
    /\ NextSlot(r)
    /\ \E id \in OrgParams, chatId \in ChatIds :
          reqs' = [reqs EXCEPT ![r] =
                     [IdleReq EXCEPT
                        !.kind = "addChat",
                        !.data = [NoData EXCEPT !.chatId =
                                     Param(RouteParams(id, chatId), "chatId")],
                        !.organization =
                            Param(RouteParams(id, chatId), "organizationId"),
                        !.pc = "findOrganization"]]
    /\ UNCHANGED <<chats, messages, documents, emitted, tasks, url, classified,
                   notifier, organizations, ocr>>

\* if (!organization) return 404: organizationId is undefined, the lookup
\* finds nothing, and the rest of the handler (the chat lookup, the
\* reference and the push onto organization.chats) is never reached.
AddChatToOrganizationFind(r) ==
    /\ reqs[r].kind = "addChat" /\ reqs[r].pc = "findOrganization"
    /\ FindById(reqs[r].organization)._id = 0
    /\ reqs' = NotFound404(r)
    /\ UNCHANGED <<chats, messages, documents, emitted, tasks, url, classified,
                   notifier, organizations, ocr>>

\* DELETE /api/organizations/:id/chats/:chatId, controller: the same
\* destructuring of req.params.
RemoveChatFromOrganizationDelete(r) ==
    /\ NextSlot(r)
    /\ \E id \in OrgParams, chatId \in ChatIds :
          reqs' = [reqs EXCEPT ![r] =
                     [IdleReq EXCEPT
                        !.kind = "removeChat",
                        !.data = [NoData EXCEPT !.chatId =
                                     Param(RouteParams(id, chatId), "chatId")],
                        !.organization =
                            Param(RouteParams(id, chatId), "organizationId"),
                        !.pc = "findOrganization"]]
    /\ UNCHANGED <<chats, messages, documents, emitted, tasks, url, classified,
                   notifier, organizations, ocr>>

\* if (!organization) return 404, as above.
RemoveChatFromOrganizationFind(r) ==
    /\ reqs[r].kind = "removeChat" /\ reqs[r].pc = "findOrganization"
    /\ FindById(reqs[r].organization)._id = 0
    /\ reqs' = NotFound404(r)
    /\ UNCHANGED <<chats, messages, documents, emitted, tasks, url, classified,
                   notifier, organizations, ocr>>

\* organization.save() of a loaded Organization: rejected when the row is
\* gone (DocumentNotFoundError), and, for a write that replaces the whole
\* array, when the row's version moved since it was loaded (VersionError).
SaveRejected(r, replacing) ==
    LET stored == FindById(reqs[r].organization)
    IN  stored._id = 0 \/ (replacing /\ stored.v # reqs[r].seen)

\* app.post('/api/organizations/:id/chats/:chatId'), index.js: the request
\* arrives and Organization.findById(id) is issued.
InlineAddChatPost(r) ==
    /\ NextSlot(r)
    /\ \E id \in OrgParams, chatId \in ChatIds :
          reqs' = [reqs EXCEPT ![r] =
                     [IdleReq EXCEPT
                        !.kind = "inlineAddChat",
                        !.data = [NoData EXCEPT !.chatId =
                                     Param(RouteParams(id, chatId), "chatId")],
                        !.organization = Param(RouteParams(id, chatId), "id"),
                        !.pc = "findOrganization"]]
    /\ UNCHANGED <<chats, messages, documents, emitted, tasks, url, classified,
                   notifier, organizations, ocr>>

\* 404 without the Organization; a chat id its list lacks is pushed and
\* organization.save() is issued; otherwise Chat.findOne is issued.
InlineAddChatFind(r) ==
    /\ reqs[r].kind = "inlineAddChat" /\ reqs[r].pc = "findOrganization"
    /\ LET organization == FindById(reqs[r].organization)
       IN  reqs' = IF organization._id = 0 THEN NotFound404(r)
                   ELSE [reqs EXCEPT
                           ![r].seen = organization.v,
                           ![r].pc = IF Includes(organization.chatIds,
                                                 reqs[r].data.chatId)
                                     THEN "findChat" ELSE "saveOrganization"]
    /\ UNCHANGED <<chats, messages, documents, emitted, tasks, url, classified,
                   notifier, organizations, ocr>>

\* await organization.save(): the push is appended to the stored list; then
\* Chat.findOne({ chatId }) is issued.
InlineAddChatSaveOrganization(r) ==
    /\ reqs[r].kind = "inlineAddChat" /\ reqs[r].pc = "saveOrganization"
    /\ IF SaveRejected(r, FALSE)
       THEN /\ reqs' = Failed500(r, "organization.save")
            /\ UNCHANGED organizations
       ELSE /\ organizations' =
                  {IF o._id = reqs[r].organization
                   THEN [o EXCEPT !.chatIds = Append(@, reqs[r].data.chatId),
                                  !.v = @ + 1]
                   ELSE o : o \in organizations}
            /\ reqs' = [reqs EXCEPT ![r].pc = "findChat"]
    /\ UNCHANGED <<chats, messages, documents, emitted, tasks, url, classified,
                   notifier, ocr>>

\* const chat = await Chat.findOne({ chatId }): without a Chat 200 is sent;
\* with one, chat.organization is set and chat.save() is issued.
InlineAddChatFindChat(r) ==
    /\ reqs[r].kind = "inlineAddChat" /\ reqs[r].pc = "findChat"
    /\ LET chat == FindOne(ChatsWith(reqs[r].data.chatId))
       IN  reqs' = IF chat._id = 0
                   THEN [reqs EXCEPT ![r].response = <<Reply(200, "organization")>>,
                                     ![r].pc = "done"]
                   ELSE [reqs EXCEPT ![r].chat = chat._id, ![r].pc = "saveChat"]
    /\ UNCHANGED <<chats, messages, documents, emitted, tasks, url, classified,
                   notifier, organizations, ocr>>

\* await chat.save(); res.status(200).json(organization)
InlineAddChatSaveChat(r) ==
    /\ reqs[r].kind = "inlineAddChat" /\ reqs[r].pc = "saveChat"
    /\ chats' = {IF c._id = reqs[r].chat
                 THEN [c EXCEPT !.organization = reqs[r].organization] ELSE c
                 : c \in chats}
    /\ reqs' = [reqs EXCEPT ![r].response = <<Reply(200, "organization")>>,
                            ![r].pc = "done"]
    /\ UNCHANGED <<messages, documents, emitted, tasks, url, classified,
                   notifier, organizations, ocr>>

\* app.delete('/api/organizations/:id/chats/:chatId'), index.js: the request
\* arrives and Organization.findById(id) is issued.
InlineRemoveChatDelete(r) ==
    /\ NextSlot(r)
    /\ \E id \in OrgParams, chatId \in ChatIds :
          reqs' = [reqs EXCEPT ![r] =
                     [IdleReq EXCEPT
                        !.kind = "inlineRemoveChat",
                        !.data = [NoData EXCEPT !.chatId =
                                     Param(RouteParams(id, chatId), "chatId")],
                        !.organization = Param(RouteParams(id, chatId), "id"),
                        !.pc = "findOrganization"]]
    /\ UNCHANGED <<chats, messages, documents, emitted, tasks, url, classified,
                   notifier, organizations, ocr>>

\* 404 without the Organization; otherwise the list is replaced by the list
\* without the chat id and organization.save() is issued.
InlineRemoveChatFind(r) ==
    /\ reqs[r].kind = "inlineRemoveChat" /\ reqs[r].pc = "findOrganization"
    /\ LET organization == FindById(reqs[r].organization)
       IN  reqs' = IF organization._id = 0 THEN NotFound404(r)
                   ELSE [reqs EXCEPT
                           ![r].seen = organization.v,
                           ![r].list = Without(organization.chatIds,
                                               reqs[r].data.chatId),
                           ![r].dedup = ~Includes(organization.chatIds,
                                                  reqs[r].data.chatId),
                           ![r].pc = "saveOrganization"]
    /\ UNCHANGED <<chats, messages, documents, emitted, tasks, url, classified,
                   notifier, organizations, ocr>>

\* await organization.save(): a list that lost nothing is not written; one
\* that did replaces the stored list.  Then Chat.findOne is issued.
InlineRemoveChatSaveOrganization(r) ==
    /\ reqs[r].kind = "inlineRemoveChat" /\ reqs[r].pc = "saveOrganization"
    /\ IF reqs[r].dedup
       THEN /\ reqs' = [reqs EXCEPT ![r].pc = "findChat"]
            /\ UNCHANGED organizations
       ELSE IF SaveRejected(r, TRUE)
       THEN /\ reqs' = Failed500(r, "organization.save")
            /\ UNCHANGED organizations
       ELSE /\ organizations' =
                  {IF o._id = reqs[r].organization
                   THEN [o EXCEPT !.chatIds = reqs[r].list, !.v = @ + 1]
                   ELSE o : o \in organizations}
            /\ reqs' = [reqs EXCEPT ![r].pc = "findChat"]
    /\ UNCHANGED <<chats, messages, documents, emitted, tasks, url, classified,
                   notifier, ocr>>

\* const chat = await Chat.findOne({ chatId }): a Chat whose reference is
\* the Organization of the path gets it cleared and chat.save() is issued;
\* otherwise 200 is sent.
InlineRemoveChatFindChat(r) ==
    /\ reqs[r].kind = "inlineRemoveChat" /\ reqs[r].pc = "findChat"
    /\ LET chat == FindOne(ChatsWith(reqs[r].data.chatId))
       IN  reqs' = IF chat._id # 0 /\ chat.organization = reqs[r].organization
                   THEN [reqs EXCEPT ![r].chat = chat._id, ![r].pc = "saveChat"]
                   ELSE [reqs EXCEPT ![r].response = <<Reply(200, "organization")>>,
                                     ![r].pc = "done"]
    /\ UNCHANGED <<chats, messages, documents, emitted, tasks, url, classified,
                   notifier, organizations, ocr>>

\* chat.organization = null; await chat.save(); res.status(200).json(...)
InlineRemoveChatSaveChat(r) ==
    /\ reqs[r].kind = "inlineRemoveChat" /\ reqs[r].pc = "saveChat"
    /\ chats' = {IF c._id = reqs[r].chat
                 THEN [c EXCEPT !.organization = 0] ELSE c : c \in chats}
    /\ reqs' = [reqs EXCEPT ![r].response = <<Reply(200, "organization")>>,
                            ![r].pc = "done"]
    /\ UNCHANGED <<messages, documents, emitted, tasks, url, classified,
                   notifier, organizations, ocr>>

----------------------------------------------------------------------------
(* The notifier: io.on('connection'), join_chat, leave_chat, io.to().emit *)

\* A client connects: socket.io creates its socket.
Connect(s) ==
    /\ s \notin sockets
    /\ sockets' = sockets \cup {s}
    /\ UNCHANGED <<ocr, organizations, chats, messages, documents, emitted, reqs, tasks, url,
                   classified, rooms, inbox, joined>>

\* socket.on('join_chat', (chatId) => socket.join(chatId))
JoinChat(s, chatId) ==
    /\ s \in sockets
    /\ rooms' = [rooms EXCEPT ![chatId] = @ \cup {s}]
    /\ joined' = joined \cup {<<s, chatId>>}
    /\ UNCHANGED <<ocr, organizations, chats, messages, documents, emitted, reqs, tasks, url,
                   classified, sockets, inbox>>

\* A leave_chat handler that logs and leaves the socket in the room.
LeaveChatLogOnly(s, chatId) ==
    /\ s \in sockets
    /\ joined' = joined \ {<<s, chatId>>}
    /\ UNCHANGED <<ocr, organizations, chats, messages, documents, emitted, reqs, tasks, url,
                   classified, sockets, rooms, inbox>>

\* socket.on('leave_chat', (chatId) => socket.leave(chatId))
LeaveChat(s, chatId) ==
    /\ s \in sockets
    /\ rooms' = [rooms EXCEPT ![chatId] = @ \ {s}]
    /\ joined' = joined \ {<<s, chatId>>}
    /\ UNCHANGED <<ocr, organizations, chats, messages, documents, emitted, reqs, tasks, url,
                   classified, sockets, inbox>>

\* The client goes away: socket.io takes the socket out of every room; the
\* 'disconnect' handler only logs.
Disconnect(s) ==
    /\ s \in sockets
    /\ sockets' = sockets \ {s}
    /\ rooms' = [topic \in Topics |-> rooms[topic] \ {s}]
    /\ joined' = {p \in joined : p[1] # s}
    /\ UNCHANGED <<ocr, organizations, chats, messages, documents, emitted, reqs, tasks, url,
                   classified, inbox>>

\* The broadcasts so far, counted by the notices handed to the sockets.
Sent == Cardinality(DOMAIN emitted)

\* The sockets io.to(topic) selects: the members of the room.
Audience(topic) == rooms[topic]

\* io.to(chatId).emit('new_message', message): the event goes to the
\* sockets selected at that moment.
Broadcast(topic) ==
    /\ Sent < MaxBroadcast
    /\ LET n == Sent + 1
           e == Event("new_message", topic, topic, n, 0, <<"io", n>>)
       IN  /\ emitted' = Emit(emitted, e)
           /\ inbox' = [s \in Clients |->
                           IF s \in Audience(topic) THEN inbox[s] \cup {e}
                           ELSE inbox[s]]
    /\ UNCHANGED <<ocr, organizations, chats, messages, documents, reqs, tasks, url, classified,
                   sockets, rooms, joined>>

----------------------------------------------------------------------------
(* Specification *)

Init ==
    /\ chats = {}
    /\ messages = {}
    /\ documents = {}
    /\ emitted = << >>
    /\ reqs = [r \in Req |-> IdleReq]
    /\ tasks = << >>
    /\ url = << >>
    /\ classified = << >>
    /\ sockets = {}
    /\ rooms = [topic \in Topics |-> {}]
    /\ inbox = [s \in Clients |-> {}]
    /\ joined = {}
    /\ aiDocument = NoDocument
    /\ tables = Pending
    /\ organizations = {}

Next ==
    \/ \E r \in Req : WebhookPost(r)
    \/ \E r \in Req : ProcessMessageFindChat(r)
    \/ \E r \in Req : ProcessMessageGetChatInfo(r)
    \/ \E r \in Req : ProcessMessageSaveChat(r)
    \/ \E r \in Req : ProcessMessageFindMessage(r)
    \/ \E r \in Req : ProcessMessageSaveMessage(r)
    \/ \E r \in Req : ProcessMessageUpdateChat(r)
    \/ \E t \in TaskSlots : ProcessMediaDocumentDownload(t)
    \/ \E t \in TaskSlots : ProcessMediaDocumentOcr(t)
    \/ \E t \in TaskSlots : ProcessMediaDocumentSave(t)
    \/ \E t \in TaskSlots : ProcessMediaDocumentEmit(t)
    \/ \E r \in Req : ProcessDocumentPost(r)
    \/ \E r \in Req : ProcessDocumentFindMessage(r)
    \/ \E r \in Req : ProcessDocumentFindDocument(r)
    \/ \E r \in Req : GetMessagesGet(r)
    \/ \E r \in Req : GetMessagesFindChat(r)
    \/ \E r \in Req : GetMessagesGetChatInfo(r)
    \/ \E r \in Req : GetMessagesSaveChat(r)
    \/ \E r \in Req : GetMessagesFetch(r)
    \/ \E r \in Req : GetMessagesFindMessage(r)
    \/ \E r \in Req : GetMessagesSaveMessage(r)
    \/ \E t \in TaskSlots : HistoryProcessDownload(t)
    \/ \E t \in TaskSlots : HistoryProcessOcr(t)
    \/ \E t \in TaskSlots : HistoryProcessSave(t)
    \/ \E t \in TaskSlots : HistoryProcessEmit(t)

Spec == Init /\ [][Next]_vars

(* The routes that process documents as messages arrive: the webhook and   *)
(* the manual route of the document controller, without the history fetch  *)
(* of the message controller.                                              *)
NextProcessing ==
    \/ \E r \in Req : WebhookPost(r)
    \/ \E r \in Req : ProcessMessageFindChat(r)
    \/ \E r \in Req : ProcessMessageGetChatInfo(r)
    \/ \E r \in Req : ProcessMessageSaveChat(r)
    \/ \E r \in Req : ProcessMessageFindMessage(r)
    \/ \E r \in Req : ProcessMessageSaveMessage(r)
    \/ \E r \in Req : ProcessMessageUpdateChat(r)
    \/ \E t \in TaskSlots : ProcessMediaDocumentDownload(t)
    \/ \E t \in TaskSlots : ProcessMediaDocumentOcr(t)
    \/ \E t \in TaskSlots : ProcessMediaDocumentSave(t)
    \/ \E t \in TaskSlots : ProcessMediaDocumentEmit(t)
    \/ \E r \in Req : ProcessDocumentPost(r)
    \/ \E r \in Req : ProcessDocumentFindMessage(r)
    \/ \E r \in Req : ProcessDocumentFindDocument(r)

SpecProcessing == Init /\ [][NextProcessing]_vars

(* Every entry point that creates a Chat or a Message: webhook ingestion,   *)
(* history fetch, send, the two chat lookups and the assignment to an      *)
(* organization.  The document tasks, which write neither collection, are  *)
(* launched and left pending.                                              *)
NextStore ==
    \/ \E r \in Req : WebhookPost(r)
    \/ \E r \in Req : ProcessMessageFindChat(r)
    \/ \E r \in Req : ProcessMessageGetChatInfo(r)
    \/ \E r \in Req : ProcessMessageSaveChat(r)
    \/ \E r \in Req : ProcessMessageFindMessage(r)
    \/ \E r \in Req : ProcessMessageSaveMessage(r)
    \/ \E r \in Req : ProcessMessageUpdateChat(r)
    \/ \E r \in Req : GetMessagesGet(r)
    \/ \E r \in Req : GetMessagesFindChat(r)
    \/ \E r \in Req : GetMessagesGetChatInfo(r)
    \/ \E r \in Req : GetMessagesSaveChat(r)
    \/ \E r \in Req : GetMessagesFetch(r)
    \/ \E r \in Req : GetMessagesFindMessage(r)
    \/ \E r \in Req : GetMessagesSaveMessage(r)
    \/ \E r \in Req : SendMessagePost(r)
    \/ \E r \in Req : SendMessageFindChat(r)
    \/ \E r \in Req : SendMessageGetChatInfo(r)
    \/ \E r \in Req : SendMessageSaveChat(r)
    \/ \E r \in Req : SendMessageSend(r)
    \/ \E r \in Req : SendMessageSaveMessage(r)
    \/ \E r \in Req : SendMessageUpdateChat(r)
    \/ \E r \in Req : GetChatByIdGet(r)
    \/ \E r \in Req : GetChatByIdFindChat(r)
    \/ \E r \in Req : GetChatByIdGetChatInfo(r)
    \/ \E r \in Req : GetChatByIdSave(r)
    \/ \E r \in Req : ChatLookupGet(r)
    \/ \E r \in Req : ChatLookupFindChat(r)
    \/ \E r \in Req : ChatLookupWhapiRequest(r)
    \/ \E r \in Req : ChatLookupSave(r)
    \/ \E r \in Req : AssignToOrganizationPost(r)
    \/ \E r \in Req : AssignToOrganizationFindChat(r)
    \/ \E r \in Req : AssignToOrganizationGetChatInfo(r)
    \/ \E r \in Req : AssignToOrganizationSave(r)

SpecStore == Init /\ [][NextStore]_vars

(* Everything that writes a Chat, a Message or a Document: ingestion and    *)
(* its task, the manual trigger, the history fetch and its task, the send   *)
(* and the reaction.                                                        *)
NextLifecycle ==
    \/ \E r \in Req : WebhookPost(r)
    \/ \E r \in Req : ProcessMessageFindChat(r)
    \/ \E r \in Req : ProcessMessageGetChatInfo(r)
    \/ \E r \in Req : ProcessMessageSaveChat(r)
    \/ \E r \in Req : ProcessMessageFindMessage(r)
    \/ \E r \in Req : ProcessMessageSaveMessage(r)
    \/ \E r \in Req : ProcessMessageUpdateChat(r)
    \/ \E t \in TaskSlots : ProcessMediaDocumentDownload(t)
    \/ \E t \in TaskSlots : ProcessMediaDocumentOcr(t)
    \/ \E t \in TaskSlots : ProcessMediaDocumentSave(t)
    \/ \E t \in TaskSlots : ProcessMediaDocumentEmit(t)
    \/ \E r \in Req : ProcessDocumentPost(r)
    \/ \E r \in Req : ProcessDocumentFindMessage(r)
    \/ \E r \in Req : ProcessDocumentFindDocument(r)
    \/ \E r \in Req : GetMessagesGet(r)
    \/ \E r \in Req : GetMessagesFindChat(r)
    \/ \E r \in Req : GetMessagesGetChatInfo(r)
    \/ \E r \in Req : GetMessagesSaveChat(r)
    \/ \E r \in Req : GetMessagesFetch(r)
    \/ \E r \in Req : GetMessagesFindMessage(r)
    \/ \E r \in Req : GetMessagesSaveMessage(r)
    \/ \E t \in TaskSlots : HistoryProcessDownload(t)
    \/ \E t \in TaskSlots : HistoryProcessOcr(t)
    \/ \E t \in TaskSlots : HistoryProcessSave(t)
    \/ \E t \in TaskSlots : HistoryProcessEmit(t)
    \/ \E r \in Req : SendMessagePost(r)
    \/ \E r \in Req : SendMessageFindChat(r)
    \/ \E r \in Req : SendMessageGetChatInfo(r)
    \/ \E r \in Req : SendMessageSaveChat(r)
    \/ \E r \in Req : SendMessageSend(r)
    \/ \E r \in Req : SendMessageSaveMessage(r)
    \/ \E r \in Req : SendMessageUpdateChat(r)
    \/ \E r \in Req : ReactToMessagePost(r)
    \/ \E r \in Req : ReactToMessageReact(r)
    \/ \E r \in Req : ReactToMessageFindMessage(r)
    \/ \E r \in Req : ReactToMessageSave(r)

SpecLifecycle == Init /\ [][NextLifecycle]_vars

(* Reactions on a store that already holds an ingested Message, as after a  *)
(* restart of the server: the store is the database, the requests are new.  *)
InitStored ==
    /\ \E e \in Events :
          /\ chats = {[NewChat(1, e.chatId, 0) EXCEPT !.lastMessage = 1]}
          /\ messages = {[_id |-> 1, messageId |-> e.id, chat |-> 1,
                          sender |-> SenderOrUnknown(e.sender),
                          mediaType |-> MediaTypeOrNone(e.mediaType),
                          mediaUrl |-> e.mediaUrl, reactions |-> e.reactions]}
    /\ documents = {}
    /\ emitted = << >>
    /\ reqs = [r \in Req |-> IdleReq]
    /\ tasks = << >>
    /\ url = << >>
    /\ classified = << >>
    /\ sockets = {}
    /\ rooms = [topic \in Topics |-> {}]
    /\ inbox = [s \in Clients |-> {}]
    /\ joined = {}
    /\ aiDocument = NoDocument
    /\ tables = Pending
    /\ organizations = {}

NextReactions ==
    \/ \E r \in Req : ReactToMessagePost(r)
    \/ \E r \in Req : ReactToMessageReact(r)
    \/ \E r \in Req : ReactToMessageFindMessage(r)
    \/ \E r \in Req : ReactToMessageSave(r)

SpecReactions == InitStored /\ [][NextReactions]_vars

(* The organization handlers and the assignment of a chat, on a store that  *)
(* already holds two Organizations and one Chat.                            *)
InitOrganized ==
    /\ chats = {NewChat(1, "c1", 0)}
    /\ organizations = {[_id |-> id, chats |-> << >>, chatIds |-> << >>, v |-> 0]
                          : id \in OrgParams}
    /\ messages = {}
    /\ documents = {}
    /\ emitted = << >>
    /\ reqs = [r \in Req |-> IdleReq]
    /\ tasks = << >>
    /\ url = << >>
    /\ classified = << >>
    /\ sockets = {}
    /\ rooms = [topic \in Topics |-> {}]
    /\ inbox = [s \in Clients |-> {}]
    /\ joined = {}
    /\ aiDocument = NoDocument
    /\ tables = Pending

NextOrganizations ==
    \/ \E r \in Req : DeleteOrganizationDelete(r)
    \/ \E r \in Req : DeleteOrganizationFind(r)
    \/ \E r \in Req : DeleteOrganizationUpdateMany(r)
    \/ \E r \in Req : DeleteOrganizationDeleteOne(r)
    \/ \E r \in Req : InlineDeleteOrganizationDelete(r)
    \/ \E r \in Req : InlineDeleteOrganizationFind(r)
    \/ \E r \in Req : InlineDeleteOrganizationDeleteOne(r)
    \/ \E r \in Req : InlineDeleteOrganizationUpdateMany(r)
    \/ \E r \in Req : AddChatToOrganizationPost(r)
    \/ \E r \in Req : AddChatToOrganizationFind(r)
    \/ \E r \in Req : RemoveChatFromOrganizationDelete(r)
    \/ \E r \in Req : RemoveChatFromOrganizationFind(r)
    \/ \E r \in Req : InlineAddChatPost(r)
    \/ \E r \in Req : InlineAddChatFind(r)
    \/ \E r \in Req : InlineAddChatSaveOrganization(r)
    \/ \E r \in Req : InlineAddChatFindChat(r)
    \/ \E r \in Req : InlineAddChatSaveChat(r)
    \/ \E r \in Req : InlineRemoveChatDelete(r)
    \/ \E r \in Req : InlineRemoveChatFind(r)
    \/ \E r \in Req : InlineRemoveChatSaveOrganization(r)
    \/ \E r \in Req : InlineRemoveChatFindChat(r)
    \/ \E r \in Req : InlineRemoveChatSaveChat(r)
    \/ \E r \in Req : AssignToOrganizationPost(r)
    \/ \E r \in Req : AssignToOrganizationFindChat(r)
    \/ \E r \in Req : AssignToOrganizationGetChatInfo(r)
    \/ \E r \in Req : AssignToOrganizationSave(r)

SpecOrganizations == InitOrganized /\ [][NextOrganizations]_vars

(* The notifier alone: clients connect, join and leave topics and go away  *)
(* while the server broadcasts.                                            *)
NextNotifier ==
    \/ \E s \in Clients : Connect(s)
    \/ \E s \in Clients, chatId \in Topics : JoinChat(s, chatId)
    \/ \E s \in Clients, chatId \in Topics : LeaveChat(s, chatId)
    \/ \E s \in Clients : Disconnect(s)
    \/ \E topic \in Topics : Broadcast(topic)

SpecNotifier == Init /\ [][NextNotifier]_vars

----------------------------------------------------------------------------
(* The classification alone, on every URL up to MaxUrlLen characters *)

Chars == {".", "p", "d", "f", "o", "c", "x", "P"}

Impls == {"webhook", "manual", "history"}

Classify(impl, mediaType, mediaUrl) ==
    CASE impl = "webhook" -> ClassifyWebhook(mediaType, mediaUrl)
      [] impl = "manual" -> ClassifyManual(mediaType, mediaUrl)
      [] impl = "history" -> ClassifyHistory(mediaType, mediaUrl)

\* One more character of the URL.
TypeChar ==
    /\ classified = << >>
    /\ Len(url) < MaxUrlLen
    /\ \E c \in Chars : url' = Append(url, c)
    /\ UNCHANGED <<chats, messages, documents, emitted, reqs, tasks, classified, notifier, organizations, ocr>>

\* The three implementations applied to the URL, as image and as document.
ClassifyUrl ==
    /\ classified = << >>
    /\ classified' = [p \in Impls \X {"image", "document"} |->
                         Classify(p[1], p[2], url)]
    /\ UNCHANGED <<chats, messages, documents, emitted, reqs, tasks, url, notifier, organizations, ocr>>

NextMime == TypeChar \/ ClassifyUrl

SpecMime == Init /\ [][NextMime]_vars

----------------------------------------------------------------------------
(* The table extraction alone, on every result of the OCR service up to     *)
(* MaxRows rows a group and MaxCells cells a row                            *)

InitTables ==
    /\ aiDocument \in SourceDocuments
    /\ tables = Pending
    /\ chats = {}
    /\ messages = {}
    /\ documents = {}
    /\ emitted = << >>
    /\ reqs = [r \in Req |-> IdleReq]
    /\ tasks = << >>
    /\ url = << >>
    /\ classified = << >>
    /\ sockets = {}
    /\ rooms = [topic \in Topics |-> {}]
    /\ inbox = [s \in Clients |-> {}]
    /\ joined = {}
    /\ organizations = {}

\* tables: this._extractTables(document)
ExtractTables ==
    /\ tables = Pending
    /\ tables' = [done |-> TRUE, value |-> _extractTables(aiDocument)]
    /\ UNCHANGED <<chats, messages, documents, emitted, reqs, tasks, url,
                   classified, notifier, organizations, aiDocument>>

NextTables == ExtractTables

SpecTables == InitTables /\ [][NextTables]_vars

----------------------------------------------------------------------------
(* Vocabulary of the properties *)

\* How often an event satisfying the test was broadcast.
Broadcasts(name, by) ==
    SumOver(emitted, {e \in DOMAIN emitted : e.event = name /\ e.by = by})

\* new_message broadcasts that carry a Message with external id m.
NewMessageCount(m) ==
    SumOver(emitted, {e \in DOMAIN emitted :
                         /\ e.event = "new_message"
                         /\ \E x \in MessagesWith(m) : x._id = e.message})

\* new_chat broadcasts for chat id c.
NewChatCount(c) ==
    SumOver(emitted, {e \in DOMAIN emitted : e.event = "new_chat" /\ e.chatId = c})

\* The webhook deliveries of the message event with external id m.
Deliveries(m) ==
    {r \in Req : reqs[r].kind = "webhook" /\ reqs[r].event = "message"
                 /\ reqs[r].data.id = m}

Ingestions == {r \in Req : reqs[r].kind = "webhook" /\ reqs[r].event = "message"}

Done(r) == reqs[r].pc = "done"

TaskIds == 1..Len(tasks)

\* The task ended in its catch: the download or the OCR call failed, or the
\* provider client it names ("unbound") is not in scope.
Failed(t) == tasks[t].dl \in {"fail", "unbound"} \/ tasks[t].ocr = "fail"

Succeeded(t) == tasks[t].dl = "ok" /\ tasks[t].ocr = "ok" /\ tasks[t].pc = "done"

\* The topic of a message's chat: the chatId of the Chat its row references.
TopicOfMessage(message) ==
    LET row == CHOOSE m \in messages : m._id = message
    IN  (CHOOSE c \in chats : c._id = row.chat).chatId

----------------------------------------------------------------------------
(* C1 *)

\* C1 as stated: once the same message event has been delivered twice and
\* both ingestions have finished, the store holds exactly one Message with
\* that external id and exactly one new_message was broadcast for it.
C1_ExactlyOnce ==
    \A m \in MessageIds :
        (Cardinality(Deliveries(m)) >= 2 /\ \A r \in Deliveries(m) : Done(r))
            => /\ Cardinality(MessagesWith(m)) = 1
               /\ NewMessageCount(m) = 1

\* C1, amended: in every state, for every external message id m, at most one
\* Message with messageId m is stored and at most one new_message was
\* broadcast for it; new_message was broadcast once by each finished
\* ingestion that persisted the Message and by nothing else; and once an
\* ingestion of m has run to its end without being aborted, exactly one
\* Message with messageId m is stored.
C1_AtMostOnce ==
    \A m \in MessageIds :
        /\ Cardinality(MessagesWith(m)) <= 1
        /\ NewMessageCount(m) <= 1
        /\ NewMessageCount(m) =
              Cardinality({r \in Deliveries(m) : reqs[r].savedMessage /\ Done(r)})
        /\ \A r \in Deliveries(m) :
              (Done(r) /\ reqs[r].error = "") => Cardinality(MessagesWith(m)) = 1

\* Two interleaved deliveries of one event: both passed the existence check,
\* one insert was rejected by the unique index, the other went through.
C1_Witness ==
    \E r1, r2 \in Req :
        /\ r1 # r2
        /\ reqs[r1].kind = "webhook" /\ reqs[r2].kind = "webhook"
        /\ reqs[r1].data.id = "m1" /\ reqs[r2].data.id = "m1"
        /\ Done(r1) /\ Done(r2)
        /\ reqs[r1].savedMessage
        /\ reqs[r2].error = "message.save"
        /\ Cardinality(MessagesWith("m1")) = 1
        /\ NewMessageCount("m1") = 1

----------------------------------------------------------------------------
(* C2 *)

----------------------------------------------------------------------------
(* C3 *)

\* C3: when the Document Processing Task is invoked for a Message for which
\* an earlier invocation is in flight or has succeeded, the later invocation
\* stops at its guard and reports 'already processed'.
C3_SecondInvocationRefuses ==
    \A t1, t2 \in TaskIds :
        (/\ t1 < t2
         /\ tasks[t2].kind = "manual"
         /\ tasks[t1].message = tasks[t2].message
         /\ ~Failed(t1))
            => reqs[tasks[t2].by].response =
                   <<Reply(400, json("Document already processed"))>>

----------------------------------------------------------------------------
(* C4 *)

\* C4: every webhook request is answered 200 'OK' as soon as it is taken up,
\* before any store, provider or notifier call of its ingestion, and the
\* response list stays exactly that one acknowledgment whatever becomes of
\* the ingestion and of the task it launches.
C4_AckFirst ==
    \A r \in Req :
        reqs[r].kind = "webhook" => reqs[r].response = <<Reply(200, "OK")>>

\* An ingestion aborted by a failed chat fetch, one aborted by a rejected
\* store write, or one whose media task failed: the caller saw 200 'OK'.
C4_Witness ==
    \E r1, r2 \in Req :
        /\ r1 # r2
        /\ reqs[r1].kind = "webhook" /\ Done(r1) /\ reqs[r1].error = "getChatInfo"
        /\ reqs[r1].response = <<Reply(200, "OK")>>
        /\ reqs[r2].kind = "webhook" /\ Done(r2)
        /\ \E t \in TaskIds : tasks[t].by = r2 /\ tasks[t].pc = "done" /\ Failed(t)
        /\ reqs[r2].response = <<Reply(200, "OK")>>

----------------------------------------------------------------------------
(* C5 *)

\* The ingestion's chat lookup found no Chat record.
LookupMissed(r) == reqs[r].pc \notin {"idle", "findChat"} /\ reqs[r].fetch # ""

\* C5 as stated: an ingestion whose chat id had no Chat record creates
\* exactly one Chat record and broadcasts exactly one new_chat.
C5_ExactlyOneChat ==
    \A r \in Ingestions :
        (Done(r) /\ LookupMissed(r))
            => /\ reqs[r].createdChat
               /\ Broadcasts("new_chat", ByReq(r)) = 1

\* C5, amended: at most one Chat per external chat id exists; new_chat was
\* broadcast for a chat id exactly once per Chat created by an ingestion (so
\* at most once); an ingestion that finds the Chat creates none and
\* broadcasts none; an ingestion that did not find it creates exactly one
\* and broadcasts exactly one new_chat when its fetch succeeds and its insert
\* is accepted, and none when the fetch fails or the insert is rejected as a
\* duplicate; after a successful fetch and the insert attempt exactly one
\* Chat with that id exists.
C5_ChatLazyCreation ==
    /\ \A c \in ChatIds :
          /\ Cardinality(ChatsWith(c)) <= 1
          /\ NewChatCount(c) =
                Cardinality({r \in Ingestions :
                                reqs[r].createdChat /\ reqs[r].data.chatId = c})
          /\ NewChatCount(c) <= 1
    /\ \A r \in Ingestions :
          /\ Broadcasts("new_chat", ByReq(r)) = IF reqs[r].createdChat THEN 1 ELSE 0
          /\ reqs[r].createdChat =>
                \E c \in chats : c._id = reqs[r].chat /\ c.chatId = reqs[r].data.chatId
          /\ (reqs[r].pc \notin {"idle", "findChat"} /\ ~LookupMissed(r))
                => ~reqs[r].createdChat
          /\ (reqs[r].fetch = "fail" \/ reqs[r].error = "chat.save")
                => ~reqs[r].createdChat
          /\ (reqs[r].fetch = "ok" /\ reqs[r].pc # "saveChat")
                => /\ Cardinality(ChatsWith(reqs[r].data.chatId)) = 1
                   /\ reqs[r].createdChat = (reqs[r].error # "chat.save")

\* A first message for an unseen chat created the Chat and told the viewers;
\* a later message for the same chat found it and created nothing.
C5_Witness ==
    \E r1, r2 \in Req :
        /\ reqs[r1].kind = "webhook" /\ reqs[r2].kind = "webhook"
        /\ reqs[r1].data.id = "m1" /\ reqs[r2].data.id = "m2"
        /\ Done(r1) /\ Done(r2)
        /\ reqs[r1].createdChat /\ reqs[r1].savedMessage
        /\ ~LookupMissed(r2) /\ ~reqs[r2].createdChat /\ reqs[r2].savedMessage
        /\ Cardinality(ChatsWith("c1")) = 1
        /\ NewChatCount("c1") = 1

----------------------------------------------------------------------------
(* C6 *)

\* C6: a webhook-triggered or manually triggered task that ended in its
\* catch (the download failed, the OCR call failed, or the task could not
\* issue the download) has broadcast exactly one document_processing_error,
\* on the topic of the message's chat and naming the message, has broadcast
\* no document_processed, and has created no Document.
C6_FailureNotification ==
    \A t \in TaskIds :
        (tasks[t].kind \in {"webhook", "manual"} /\ tasks[t].pc = "done" /\ Failed(t))
            => /\ Broadcasts("document_processing_error", ByTask(t)) = 1
               /\ \A e \in DOMAIN emitted :
                     (e.event = "document_processing_error" /\ e.by = ByTask(t))
                         => /\ e.topic = TopicOfMessage(tasks[t].message)
                            /\ e.message = tasks[t].message
               /\ Broadcasts("document_processed", ByTask(t)) = 0
               /\ tasks[t].doc = 0
               /\ Cardinality(documents) =
                     Cardinality({u \in TaskIds : tasks[u].doc # 0})

\* A webhook task that failed at the download and one that failed at the OCR
\* call.
C6_Witness ==
    \E t1, t2 \in TaskIds :
        /\ tasks[t1].kind = "webhook" /\ tasks[t1].pc = "done" /\ tasks[t1].dl = "fail"
        /\ tasks[t2].kind = "webhook" /\ tasks[t2].pc = "done" /\ tasks[t2].ocr = "fail"

----------------------------------------------------------------------------
(* C7 *)

\* C7: a document task that has ended has broadcast exactly one terminal
\* notification, document_processed or document_processing_error.
C7_TerminalNotification ==
    \A t \in TaskIds :
        tasks[t].pc = "done"
            => Broadcasts("document_processed", ByTask(t))
                 + Broadcasts("document_processing_error", ByTask(t)) = 1

----------------------------------------------------------------------------
(* C8 *)

\* Every request has been answered and every task has ended.
Quiescent ==
    /\ \A r \in Req : reqs[r].pc \in {"idle", "done"}
    /\ \A t \in TaskIds : tasks[t].pc = "done"

\* C8: once everything has run to its end, an image event with a new message
\* id whose chat fetch did not fail has had the task launched for its
\* Message; and when that task's download and OCR call succeeded, exactly
\* one Document references the Message, its file classification is 'image',
\* and document_processed was broadcast on the topic equal to the event's
\* chat id.
C8_EndToEnd ==
    \A r \in Ingestions :
        (/\ Quiescent
         /\ reqs[r].data.mediaType = "image"
         /\ ~reqs[r].dedup
         /\ reqs[r].fetch # "fail")
            => \E t \in TaskIds, m \in MessagesWith(reqs[r].data.id) :
                  /\ tasks[t].kind = "webhook" /\ tasks[t].message = m._id
                  /\ Succeeded(t) =>
                        /\ Cardinality(DocumentsOf(m._id)) = 1
                        /\ \A d \in DocumentsOf(m._id) : d.fileType = "image"
                        /\ \E e \in DOMAIN emitted :
                              /\ e.event = "document_processed"
                              /\ e.topic = reqs[r].data.chatId
                              /\ e.message = m._id

----------------------------------------------------------------------------
(* C9 *)

\* C9: a finished ingestion has launched the document task exactly when it
\* persisted a new Message whose stored media classification is image or
\* document, and then exactly one, for that Message; an unfinished one has
\* launched none.
C9_LaunchIff ==
    \A r \in Ingestions :
        LET mine == {t \in TaskIds : tasks[t].kind = "webhook" /\ tasks[t].by = r}
            stored == {m \in messages : m._id = reqs[r].message}
        IN  /\ Cardinality(mine) = reqs[r].launched
            /\ \A t \in mine : tasks[t].message = reqs[r].message
            /\ Cardinality(mine) =
                  IF /\ Done(r)
                     /\ reqs[r].savedMessage
                     /\ \E m \in stored : m.mediaType \in {"image", "document"}
                  THEN 1 ELSE 0
            /\ reqs[r].dedup => mine = {}
            /\ \A m \in stored :
                  m.mediaType \in {"none", "video", "audio"} => mine = {}

\* An ingestion that launched the task for an image, and one that persisted
\* a video message and launched nothing.
C9_Witness ==
    \E r1, r2 \in Req :
        /\ reqs[r1].kind = "webhook" /\ reqs[r1].data.id = "m1"
        /\ Done(r1) /\ reqs[r1].launched = 1
        /\ reqs[r2].kind = "webhook" /\ reqs[r2].data.id = "m4"
        /\ Done(r2) /\ reqs[r2].savedMessage /\ reqs[r2].launched = 0

----------------------------------------------------------------------------
(* C10 *)

\* The text after the last '.' of s (all of s when it holds none).
AfterLastDot(s) ==
    LET dots == {i \in 1..Len(s) : s[i] = "."}
    IN  IF dots = {} THEN s
        ELSE SubSeq(s, (CHOOSE i \in dots : \A j \in dots : j <= i) + 1, Len(s))

\* Equal up to the case of the letters.
SameIgnoringCase(a, b) ==
    /\ Len(a) = Len(b)
    /\ \A i \in 1..Len(a) : LowerChar(a[i]) = LowerChar(b[i])

ExpectedMime(mediaType, s) ==
    IF mediaType = "image" THEN "image/jpeg"
    ELSE IF SameIgnoringCase(AfterLastDot(s), PDF) THEN "application/pdf"
    ELSE IF SameIgnoringCase(AfterLastDot(s), DOC) \/ SameIgnoringCase(AfterLastDot(s), DOCX)
    THEN "application/msword"
    ELSE "application/octet-stream"

\* C10: each of the three implementations maps media classification image to
\* image/jpeg whatever the URL, and media classification document to the
\* MIME type decided by the text after the last '.' of the URL, compared
\* without regard to case: pdf, doc or docx, anything else.
C10_MimeClassification ==
    classified # << >> =>
        \A impl \in Impls, mediaType \in {"image", "document"} :
            classified[<<impl, mediaType>>].mimeType = ExpectedMime(mediaType, url)

\* The URL a.Pdf: a PDF by its upper-case extension, an image all the same
\* when the message says image.
C10_Witness ==
    /\ url = <<"x", ".", "P", "d", "f">>
    /\ classified # << >>
    /\ \A impl \in Impls :
          /\ classified[<<impl, "document">>].mimeType = "application/pdf"
          /\ classified[<<impl, "image">>].mimeType = "image/jpeg"

----------------------------------------------------------------------------
(* C11 *)

\* Everything broadcast by the handler of request r.
BroadcastsBy(r) == SumOver(emitted, {e \in DOMAIN emitted : e.by = ByReq(r)})

\* The document tasks launched by request r.
TasksOf(r) == {t \in TaskIds : tasks[t].by = r}

NoEffect == UNCHANGED <<chats, messages, documents, emitted, tasks>>

----------------------------------------------------------------------------
(* C12 *)

\* C12: an ingestion whose chat-metadata fetch failed is over: it has
\* created no Chat and no Message, broadcast nothing (no new_chat, no
\* new_message), launched no task, and the failure stayed inside it (it is
\* recorded by the handler's catch; the caller's response is the 200 it got
\* at the start).  Every Chat and every Message in the store was created by
\* an ingestion that says so.
C12_FetchFailureAborts ==
    /\ \A r \in Ingestions :
          reqs[r].fetch = "fail"
              => /\ Done(r)
                 /\ reqs[r].error = "getChatInfo"
                 /\ ~reqs[r].createdChat /\ reqs[r].chat = 0
                 /\ ~reqs[r].savedMessage /\ reqs[r].message = 0
                 /\ BroadcastsBy(r) = 0
                 /\ reqs[r].launched = 0 /\ TasksOf(r) = {}
                 /\ reqs[r].response = <<Reply(200, "OK")>>
    /\ Cardinality(chats) = Cardinality({r \in Ingestions : reqs[r].createdChat})
    /\ Cardinality(messages) = Cardinality({r \in Ingestions : reqs[r].savedMessage})

\* The fetch failed for the first message of an unseen chat: the store is
\* still empty and nothing was broadcast.
C12_Witness ==
    \E r \in Ingestions :
        /\ reqs[r].fetch = "fail" /\ Done(r)
        /\ reqs[r].data.id = "m1"
        /\ chats = {} /\ messages = {} /\ tasks = << >>
        /\ DOMAIN emitted = {}

----------------------------------------------------------------------------
(* C13 *)

\* The ingestion that launched webhook task t stands: it has ended without
\* error, its Message is stored, and its new_message was broadcast once.
IngestionStands(t) ==
    LET r == tasks[t].by
    IN  /\ Done(r) /\ reqs[r].error = ""
        /\ reqs[r].response = <<Reply(200, "OK")>>
        /\ reqs[r].savedMessage /\ reqs[r].message = tasks[t].message
        /\ \E m \in messages : m._id = tasks[t].message
        /\ Broadcasts("new_message", ByReq(r)) = 1

\* A step of a launched task: the task moves on or ends.
TaskStep == \E t \in TaskIds : t <= Len(tasks') /\ tasks'[t] # tasks[t]

----------------------------------------------------------------------------
(* C14 *)

\* C14: in every state reached by webhook ingestions, history fetches and
\* sends, interleaved at will, no two Messages carry the same external
\* message id.
C14_UniqueMessageId ==
    /\ \A x, y \in messages : x.messageId = y.messageId => x = y
    /\ \A m \in MessageIds : Cardinality(MessagesWith(m)) <= 1
    /\ \A m \in messages : m.messageId \in MessageIds

\* A send and the webhook delivery of the sent message raced: both looked,
\* neither found the Message, the send's insert went through and the
\* ingestion's insert was rejected by the index.
C14_Witness ==
    \E r1, r2 \in Req :
        /\ reqs[r1].kind = "send" /\ reqs[r1].data.id = "m1" /\ reqs[r1].savedMessage
        /\ reqs[r2].kind = "webhook" /\ reqs[r2].data.id = "m1"
        /\ reqs[r2].error = "message.save"
        /\ Cardinality(MessagesWith("m1")) = 1

----------------------------------------------------------------------------
(* C15 *)

\* C15: in every state reached by webhook ingestions, history fetches,
\* sends, chat lookups and assignments to an organization, interleaved at
\* will, no two Chats carry the same external chat id; every Chat was
\* inserted by a handler that says so.
C15_UniqueChatId ==
    /\ \A x, y \in chats : x.chatId = y.chatId => x = y
    /\ \A c \in LookupIds : Cardinality(ChatsWith(c)) <= 1
    /\ Cardinality(chats) = Cardinality({r \in Req : reqs[r].createdChat})

\* A chat lookup and an assignment raced on an unseen chat: both missed it,
\* both asked the provider, one insert went through and the other was
\* rejected by the index.
C15_Witness ==
    \E r1, r2 \in Req :
        /\ reqs[r1].kind = "lookup" /\ reqs[r2].kind = "assign"
        /\ reqs[r1].data.chatId = "c2" /\ reqs[r2].data.chatId = "c2"
        /\ reqs[r1].fetch = "ok" /\ reqs[r2].fetch = "ok"
        /\ reqs[r1].createdChat /\ reqs[r2].error = "chat.save"
        /\ Cardinality(ChatsWith("c2")) = 1

----------------------------------------------------------------------------
(* C16 *)

\* C16: whatever the interleaving of connects, joins, leaves, disconnects
\* and broadcasts, a broadcast on a chat topic reaches exactly the clients
\* that asked to join the topic and have not since asked to leave it or
\* gone, so no other client; a step that changes who is subscribed without
\* a client connecting or going away (a join or a leave) changes the
\* subscribers of one topic only, by one client only; and a client keeps
\* what it has received.
C16_TopicDelivery ==
    /\ [](\A topic \in Topics :
              rooms[topic] = {s \in Clients : <<s, topic>> \in joined})
    /\ [][/\ \A s \in Clients :
               /\ inbox[s] \subseteq inbox'[s]
               /\ \A e \in inbox'[s] \ inbox[s] : <<s, e.topic>> \in joined
          /\ \A e \in DOMAIN emitted' \ DOMAIN emitted :
               \A s \in Clients : <<s, e.topic>> \in joined => e \in inbox'[s]
          /\ (sockets' = sockets /\ rooms' # rooms)
               => \E topic \in Topics, s \in Clients :
                     /\ \A other \in Topics \ {topic} : rooms'[other] = rooms[other]
                     /\ \/ rooms'[topic] = rooms[topic] \cup {s}
                        \/ rooms'[topic] = rooms[topic] \ {s}]_vars

\* Both clients joined c1, client 1 left it and joined c2, then one
\* broadcast went out on each topic: client 2 got the one on c1 only,
\* client 1 the one on c2 only.
C16_Witness ==
    /\ joined = {<<1, "c2">>, <<2, "c1">>}
    /\ \E e1, e2 \in DOMAIN emitted :
          /\ e1.topic = "c1" /\ e2.topic = "c2"
          /\ inbox[2] = {e1}
          /\ inbox[1] = {e2}

----------------------------------------------------------------------------
(* C17 *)

\* C17: an operation whose idempotency guard triggered (an ingestion that
\* found the Message stored, a manual trigger that found a Document for the
\* Message) reports success to its caller: no response with an error
\* status, no error outcome.
C17_GuardIsSuccess ==
    \A r \in Req :
        (reqs[r].kind \in {"webhook", "manual"} /\ reqs[r].dedup)
            => /\ reqs[r].error = ""
               /\ \A i \in 1..Len(reqs[r].response) : reqs[r].response[i].status < 400

----------------------------------------------------------------------------
(* C18 *)

\* The manual requests, and the stored Message a request names (none when
\* it names no stored Message).
ManualRequests == {r \in Req : reqs[r].kind = "manual"}

Named(r) == {m \in messages : m._id = reqs[r].target}

----------------------------------------------------------------------------
(* C19 *)

\* The chat lookups by id, of the chat controller and of index.js.
Lookups == {r \in Req : reqs[r].kind \in {"lookup", "lookupIndex"}}

\* C19: a finished chat lookup that did not find the chat in the store and
\* whose provider fetch failed was answered 200 with the placeholder chat
\* and created no Chat.
C19_PlaceholderOnFailure ==
    \A r \in Lookups :
        (Done(r) /\ ~reqs[r].dedup /\ reqs[r].fetch = "fail")
            => /\ reqs[r].response[1].status = 200
               /\ reqs[r].response = <<Reply(200, Placeholder(reqs[r].data.chatId))>>
               /\ ~reqs[r].createdChat

----------------------------------------------------------------------------
(* C20 *)

\* The Chat of ingestion r is resolved: its row exists under the event's
\* chat id.
ChatResolved(r) ==
    \E c \in chats : c._id = reqs[r].chat /\ c.chatId = reqs[r].data.chatId

\* The Message of ingestion r is persisted, in its Chat.
MessagePersisted(r) ==
    \E m \in messages : /\ m._id = reqs[r].message
                        /\ m.messageId = reqs[r].data.id
                        /\ m.chat = reqs[r].chat

\* The last-message reference of the Chat of ingestion r is its Message.
PointerSet(r) ==
    /\ reqs[r].message # 0
    /\ \E c \in chats : c._id = reqs[r].chat /\ c.lastMessage = reqs[r].message

\* Where ingestion r stands, as a state predicate.
IngestionOrder(r) ==
    LET announced == Broadcasts("new_message", ByReq(r))
    IN  /\ reqs[r].pc \in {"findMessage", "saveMessage", "updateChat"} => ChatResolved(r)
        /\ Broadcasts("new_chat", ByReq(r)) = IF reqs[r].createdChat THEN 1 ELSE 0
        /\ reqs[r].savedMessage => ChatResolved(r) /\ MessagePersisted(r)
        /\ reqs[r].pc \in {"saveMessage", "updateChat"} => ~PointerSet(r)
        /\ announced = IF reqs[r].savedMessage /\ Done(r) THEN 1 ELSE 0
        /\ \A e \in DOMAIN emitted :
              (e.event = "new_message" /\ e.by = ByReq(r))
                  => /\ e.topic = reqs[r].data.chatId
                     /\ e.message = reqs[r].message
        /\ \A t \in TasksOf(r) :
              /\ announced = 1
              /\ tasks[t].message = reqs[r].message

\* C20: an ingestion that is past its chat lookup has its Chat (new_chat
\* broadcast once if it created it, not at all otherwise); its Message is
\* persisted only with the Chat resolved; while the Message is not
\* persisted, or is persisted and the chat's last-message reference is not
\* yet written, no new_message was broadcast and no task launched; the step
\* that broadcasts new_message finds the Message persisted and leaves the
\* reference written, the broadcast being on the topic equal to the event's
\* chat id; a task exists only with new_message broadcast; every
\* new_message names a persisted Message, and every document_processing of
\* a webhook task names a Message whose new_message was broadcast.
C20_IngestionOrder ==
    /\ [](/\ \A r \in Ingestions : IngestionOrder(r)
          /\ \A e \in DOMAIN emitted :
                /\ e.event = "new_message"
                      => \E m \in messages : m._id = e.message
                /\ e.event = "document_processing"
                      => \E n \in DOMAIN emitted :
                            n.event = "new_message" /\ n.message = e.message)
    /\ [][\A r \in Req :
             reqs'[r].kind = "webhook" =>
                /\ Broadcasts("new_message", ByReq(r))' > Broadcasts("new_message", ByReq(r))
                      => /\ reqs[r].savedMessage /\ MessagePersisted(r)
                         /\ PointerSet(r)'
                /\ (~reqs[r].savedMessage /\ reqs'[r].savedMessage)
                      => /\ ChatResolved(r)
                         /\ UNCHANGED <<chats, emitted, tasks>>
                /\ (~reqs[r].createdChat /\ reqs'[r].createdChat)
                      => UNCHANGED <<messages, tasks>>]_vars

\* An ingestion between its two store writes: the Message of a new chat is
\* persisted and new_chat was broadcast, the last-message reference is not
\* yet written, and neither new_message nor document_processing went out.
C20_Witness ==
    \E r \in Ingestions :
        /\ reqs[r].pc = "updateChat"
        /\ reqs[r].data.id = "m1"
        /\ reqs[r].createdChat /\ MessagePersisted(r) /\ ~PointerSet(r)
        /\ Broadcasts("new_chat", ByReq(r)) = 1
        /\ Broadcasts("new_message", ByReq(r)) = 0
        /\ tasks = << >>

----------------------------------------------------------------------------
(* C21 *)

\* C21: every launched document task, whatever its entry point, has broadcast
\* document_processing for its Message on the topic of the Message's chat by
\* the time its download is issued, hence before any terminal event of its.
C21_ProcessingStartedFirst ==
    \A t \in TaskIds :
        \E e \in DOMAIN emitted :
            /\ e.event = "document_processing"
            /\ e.by = ByTask(t)
            /\ e.message = tasks[t].message
            /\ e.topic = TopicOfMessage(tasks[t].message)

----------------------------------------------------------------------------
(* C22 *)

\* The task that saved Document d.
Creator(d) == CHOOSE t \in TaskIds : tasks[t].doc = d._id

\* A Document exists only as the product of a task whose download and OCR
\* call both succeeded, for the task's Message.
PersistedAfterSuccess ==
    \A d \in documents :
        /\ \E t \in TaskIds : tasks[t].doc = d._id
        /\ tasks[Creator(d)].dl = "ok" /\ tasks[Creator(d)].ocr = "ok"
        /\ tasks[Creator(d)].message = d.originalMessage

\* A document_processed event names a stored Document and its Message and
\* went to the topic of the Message's chat.
ProcessedNamesPersisted ==
    \A e \in DOMAIN emitted :
        e.event = "document_processed"
            => /\ \E d \in documents :
                     d._id = e.document /\ d.originalMessage = e.message
               /\ e.topic = TopicOfMessage(e.message)

\* The task that saved Document d, once ended, has broadcast
\* document_processed for it.
ProcessedFollowsPersisted ==
    \A d \in documents :
        tasks[Creator(d)].pc = "done"
            => \E e \in DOMAIN emitted :
                  /\ e.event = "document_processed"
                  /\ e.document = d._id
                  /\ e.message = d.originalMessage

\* C22: a Document is persisted only after a download and an OCR call for its
\* Message succeeded; document_processed is broadcast only for a persisted
\* Document, on the owning chat's topic, with the Message's and the
\* Document's identifiers; and every persisted Document gets such an event
\* once the task that saved it has ended.
C22_DocumentThenNotification ==
    /\ PersistedAfterSuccess
    /\ ProcessedNamesPersisted
    /\ ProcessedFollowsPersisted

----------------------------------------------------------------------------
(* C23 *)

\* C23: when two events with distinct message ids for the same chat were
\* ingested concurrently while the chat had no record (both lookups missed)
\* and both chat fetches succeeded, both ingestions have, at their end,
\* persisted their Message and broadcast one new_message each, and exactly
\* one Chat with that chat id exists.
C23_ConcurrentFirstMessages ==
    \A r1, r2 \in Ingestions :
        (/\ r1 # r2
         /\ reqs[r1].data.chatId = reqs[r2].data.chatId
         /\ reqs[r1].data.id # reqs[r2].data.id
         /\ reqs[r1].fetch = "ok" /\ reqs[r2].fetch = "ok"
         /\ Done(r1) /\ Done(r2))
            => /\ reqs[r1].savedMessage /\ reqs[r2].savedMessage
               /\ Cardinality(MessagesWith(reqs[r1].data.id)) = 1
               /\ Cardinality(MessagesWith(reqs[r2].data.id)) = 1
               /\ Broadcasts("new_message", ByReq(r1)) = 1
               /\ Broadcasts("new_message", ByReq(r2)) = 1
               /\ Cardinality(ChatsWith(reqs[r1].data.chatId)) = 1

----------------------------------------------------------------------------
(* C24 *)

\* C24: a manual trigger that passed its guards (existing Message,
\* processable media, no Document) and whose task has ended without a failed
\* download and without a failed OCR call has created the one Document that
\* references the Message and has broadcast document_processed on the topic
\* of the Message's chat.
C24_ManualCreatesDocument ==
    \A t \in TaskIds :
        (/\ tasks[t].kind = "manual"
         /\ tasks[t].pc = "done"
         /\ tasks[t].dl # "fail" /\ tasks[t].ocr # "fail")
            => /\ Cardinality(DocumentsOf(tasks[t].message)) = 1
               /\ \E e \in DOMAIN emitted :
                     /\ e.event = "document_processed"
                     /\ e.by = ByTask(t)
                     /\ e.message = tasks[t].message
                     /\ e.topic = TopicOfMessage(tasks[t].message)

----------------------------------------------------------------------------
(* C25 *)

\* Calls so far: at most one chat fetch per ingestion, at most one download
\* and one OCR call per task, and no OCR call after a failed download.
CalledAtMostOnce ==
    /\ \A r \in Ingestions : reqs[r].fetches <= 1
    /\ \A t \in TaskIds :
          /\ tasks[t].downloads <= 1
          /\ tasks[t].ocrs <= 1
          /\ tasks[t].dl # "ok" => tasks[t].ocrs = 0

\* A step leaves the call counts of a failed ingestion and of a failed task
\* as they are.
NoCallAfterFailure ==
    /\ \A r \in Ingestions :
          reqs[r].fetch = "fail" => reqs'[r].fetches = reqs[r].fetches
    /\ \A t \in TaskIds :
          Failed(t) => /\ tasks'[t].downloads = tasks[t].downloads
                       /\ tasks'[t].ocrs = tasks[t].ocrs

\* C25: nothing is retried: an ingestion fetches the chat metadata at most
\* once, a task downloads at most once and calls OCR at most once, and after
\* a failure the ingestion or task makes no further call.
C25_NoRetry == []CalledAtMostOnce /\ [][NoCallAfterFailure]_vars

\* An ingestion whose one chat fetch failed, and a task whose one download
\* failed and that made no OCR call.
C25_Witness ==
    \E r \in Ingestions, t \in TaskIds :
        /\ Done(r) /\ reqs[r].fetch = "fail" /\ reqs[r].fetches = 1
        /\ tasks[t].kind = "webhook" /\ tasks[t].pc = "done"
        /\ tasks[t].dl = "fail" /\ tasks[t].downloads = 1 /\ tasks[t].ocrs = 0

----------------------------------------------------------------------------
(* C26 *)

\* The last-message reference of the Chat with the given _id.
LastMessageOf(chat) == (CHOOSE c \in chats : c._id = chat).lastMessage

\* Request r is a webhook ingestion or a local send.
Persisting(r) == reqs[r].kind \in {"webhook", "send"}

\* Request r completes, in this step, the chat.save() that follows its
\* message.save().
SetsPointer(r) ==
    /\ Persisting(r)
    /\ reqs[r].pc = "updateChat"
    /\ reqs'[r].pc = "done"

\* A last-message reference names a stored Message of that very chat; a
\* request that persisted a Message goes on to the pointer update and
\* nowhere else.
PointerNamesOwnMessage ==
    /\ \A c \in chats :
          c.lastMessage # 0
              => \E m \in messages : m._id = c.lastMessage /\ m.chat = c._id
    /\ \A r \in Req :
          (Persisting(r) /\ reqs[r].savedMessage)
              => /\ reqs[r].pc \in {"updateChat", "done"}
                 /\ reqs[r].error = ""
                 /\ ~reqs[r].dedup

\* The step that follows the insert of a new Message sets the reference of
\* the Message's chat to it; a reference changes only in such a step, of a
\* request for that very chat that was not deduplicated; the step in which a
\* request is deduplicated changes no Chat.
PointerFrame ==
    /\ \A r \in Req :
          SetsPointer(r)
              => /\ reqs[r].savedMessage
                 /\ LastMessageOf(reqs[r].chat)' = reqs[r].message
    /\ \A c \in chats :
          LastMessageOf(c._id)' # c.lastMessage
              => \E r \in Req :
                    /\ SetsPointer(r)
                    /\ reqs[r].chat = c._id
                    /\ reqs[r].data.chatId = c.chatId
                    /\ ~reqs[r].dedup
                    /\ LastMessageOf(c._id)' = reqs[r].message
    /\ \A r \in Req :
          (Persisting(r) /\ reqs'[r].dedup /\ ~reqs[r].dedup) => chats' = chats

\* C26: when a webhook ingestion or a local send persists a new Message, the
\* last-message reference of that Message's chat is set to it; a
\* deduplicated event leaves every chat's reference as it is; and a request
\* for one chat never changes the reference of another chat.
C26_LastMessageFrame == []PointerNamesOwnMessage /\ [][PointerFrame]_vars

\* A send and an ingestion for different chats have both set the reference
\* of their own chat.
C26_Witness ==
    \E r1, r2 \in Req :
        /\ reqs[r1].kind = "send" /\ reqs[r2].kind = "webhook"
        /\ Done(r1) /\ Done(r2)
        /\ reqs[r1].savedMessage /\ reqs[r2].savedMessage
        /\ reqs[r1].chat # reqs[r2].chat
        /\ LastMessageOf(reqs[r1].chat) = reqs[r1].message
        /\ LastMessageOf(reqs[r2].chat) = reqs[r2].message

----------------------------------------------------------------------------
(* C27 *)

\* A step keeps every Chat (under its chat id), every Message and every
\* Document; it leaves every Document as it is, and every Message as it is
\* but for its reactions.
NothingDeletedOrRewritten ==
    /\ \A c \in chats : \E c2 \in chats' : c2._id = c._id /\ c2.chatId = c.chatId
    /\ \A m \in messages :
          \E m2 \in messages' : [m2 EXCEPT !.reactions = m.reactions] = m
    /\ \A d \in documents : d \in documents'
    /\ Cardinality(chats') >= Cardinality(chats)
    /\ Cardinality(messages') >= Cardinality(messages)

\* C27: no operation deletes a Chat, a Message or a Document, no operation
\* changes a Document after its creation, and after a Message is created
\* only its reactions change.
C27_Lifecycle == [][NothingDeletedOrRewritten]_vars

\* A Message that got a reaction after it was stored, next to a Document
\* saved for it.
C27_Witness ==
    \E r \in Req, m \in messages :
        /\ reqs[r].kind = "react" /\ Done(r)
        /\ reqs[r].message = m._id
        /\ reqs[r].response = <<Reply(200, "success")>>
        /\ m.reactions = <<[userId |-> "me", emoji |-> reqs[r].emoji]>>
        /\ DocumentsOf(m._id) # {}

----------------------------------------------------------------------------
(* C28 *)

\* The MIME type that goes with a file classification.
MimeOf(fileType) ==
    CASE fileType = "image" -> "image/jpeg"
      [] fileType = "pdf" -> "application/pdf"
      [] fileType = "doc" -> "application/msword"
      [] fileType = "other" -> "application/octet-stream"

\* C28: every Document carries the file classification that goes with the
\* MIME type its task gave the OCR call (image with image/jpeg, pdf with
\* application/pdf, doc with application/msword, other with
\* application/octet-stream), the file name 'file_<message id>.<file
\* classification>', so the same name for every task run on its Message, and
\* as extracted text the text of the OCR result, or '' when it has none.
C28_DocumentFields ==
    \A d \in documents :
        LET t == CHOOSE u \in TaskIds : tasks[u].doc = d._id
        IN  /\ d.fileType \in {"image", "pdf", "doc", "other"}
            /\ d.fileType = tasks[t].fileType
            /\ MimeOf(d.fileType) = tasks[t].mimeType
            /\ d.fileName = <<"file_", d.originalMessage, ".", d.fileType>>
            /\ \A u \in TaskIds :
                  tasks[u].message = d.originalMessage
                      => FileName(tasks[u].message, tasks[u].fileType) = d.fileName
            /\ d.rawText = IF tasks[t].text = NoText THEN "" ELSE tasks[t].text
            /\ d.fileUrl = tasks[t].mediaUrl

\* The Document of the archived message with the URL b.doc, whose OCR
\* result had no text, and the Document of the one with the URL z, whose OCR
\* result had some.
C28_Witness ==
    \E d1, d2 \in documents :
        /\ d1.fileType = "doc"
        /\ d1.fileName = <<"file_", d1.originalMessage, ".", "doc">>
        /\ d1.rawText = ""
        /\ \E t \in TaskIds :
              /\ tasks[t].doc = d1._id
              /\ tasks[t].mimeType = "application/msword"
              /\ tasks[t].text = NoText
        /\ d2.fileType = "other"
        /\ d2.fileName = <<"file_", d2.originalMessage, ".", "other">>
        /\ d2.rawText = "txt"

----------------------------------------------------------------------------
(* C29 *)

\* The step in which an ingestion inserts its Message inserts one row with
\* the event's message id, sender, media classification, media URL and
\* reactions, in the Chat with the event's chat id, 'unknown' standing for a
\* missing sender and 'none' for a missing media classification.
NewMessageFromEvent ==
    \A r \in Req :
        (reqs[r].kind = "webhook" /\ ~reqs[r].savedMessage /\ reqs'[r].savedMessage)
            => LET d == reqs[r].data
               IN  \E m \in messages' \ messages :
                      /\ messages' = messages \cup {m}
                      /\ m._id = reqs'[r].message
                      /\ m.messageId = d.id
                      /\ \E c \in chats : c._id = m.chat /\ c.chatId = d.chatId
                      /\ m.sender = IF d.sender = "" THEN "unknown" ELSE d.sender
                      /\ m.mediaType = IF d.mediaType = "" THEN "none" ELSE d.mediaType
                      /\ m.mediaUrl = d.mediaUrl
                      /\ m.reactions = d.reactions

\* An ingestion of an event without media classification has launched no
\* task, and its Message, once stored, is classified 'none'.
NoMediaNoTask ==
    \A r \in Ingestions :
        reqs[r].data.mediaType = ""
            => /\ reqs[r].launched = 0
               /\ \A t \in TaskIds : tasks[t].kind = "webhook" => tasks[t].by # r
               /\ \A m \in messages :
                     m._id = reqs[r].message => m.mediaType = "none"

\* C29: a new Message created from an event takes the event's fields, a
\* missing sender being stored as 'unknown' and a missing media
\* classification as 'none'; an event without media classification therefore
\* never launches the Document Processing Task.
C29_MessageFromEvent == []NoMediaNoTask /\ [][NewMessageFromEvent]_vars

\* The event m3, which names neither sender nor media classification, was
\* ingested to its end: its Message says 'unknown' and 'none' and no task
\* was launched; the event m1 kept its sender.
C29_Witness ==
    \E r1, r2 \in Ingestions :
        /\ reqs[r1].data.id = "m3" /\ Done(r1) /\ reqs[r1].savedMessage
        /\ reqs[r1].launched = 0
        /\ \E m \in messages :
              /\ m._id = reqs[r1].message
              /\ m.sender = "unknown" /\ m.mediaType = "none"
        /\ reqs[r2].data.id = "m1" /\ Done(r2) /\ reqs[r2].savedMessage
        /\ \E m \in messages :
              m._id = reqs[r2].message /\ m.sender = "u0" /\ m.mediaType = "image"

----------------------------------------------------------------------------
(* C30 *)

\* History fetch r is in its loop, at the provider message it handles next.
InLoop(r) ==
    /\ reqs[r].kind = "history"
    /\ reqs[r].pc \in {"findMessage", "saveMessage"}

\* A step of a history fetch at a provider message whose id is stored
\* creates no Message and launches no task; its insert step at an id that is
\* not stored creates exactly one Message, with that id, and launches one
\* task when the Message is processable and none otherwise; its lookup step
\* creates and launches nothing.
FindOrCreateStep ==
    \A r \in Req :
        (InLoop(r) /\ reqs'[r] # reqs[r])
            => LET msg == reqs[r].list[reqs[r].idx]
               IN  IF MessagesWith(msg.id) # {} \/ reqs[r].pc = "findMessage"
                   THEN /\ messages' = messages
                        /\ tasks' = tasks
                        /\ reqs'[r].launched = reqs[r].launched
                   ELSE /\ \E m \in messages' \ messages :
                              /\ messages' = messages \cup {m}
                              /\ m.messageId = msg.id
                              /\ Len(tasks') = Len(tasks) +
                                    IF m.mediaType \in {"image", "document"}
                                    THEN 1 ELSE 0
                        /\ reqs'[r].launched = Len(tasks') - Len(tasks)
                                                  + reqs[r].launched

\* History fetch r1 has been answered with its list while request slot r2 is
\* still free: whatever r2 does comes after r1.
FetchedBefore(r1, r2) ==
    /\ r1 # r2
    /\ reqs[r1].kind = "history" /\ Done(r1) /\ reqs[r1].error = ""
    /\ reqs[r2].kind = "idle"

\* Request r2, fetching the history r1 fetched, has created no Message and
\* launched no task.
RepeatCreatesNothing(r1, r2) ==
    (/\ reqs[r2].kind = "history"
     /\ reqs[r2].data.chatId = reqs[r1].data.chatId
     /\ reqs[r2].list = reqs[r1].list)
        => /\ ~reqs[r2].savedMessage
           /\ reqs[r2].launched = 0
           /\ \A t \in TaskIds : tasks[t].kind = "history" => tasks[t].by # r2

\* C30: the history fetch finds or creates the Message of each provider
\* message: for an id already stored it creates no Message and launches no
\* processing, for an id not yet stored it creates exactly one Message; and
\* a fetch of the same history made after an earlier fetch was answered
\* creates no Message and launches no processing.
C30_FindOrCreate ==
    /\ [][FindOrCreateStep]_vars
    /\ \A r1, r2 \in Req :
          [](FetchedBefore(r1, r2) => []RepeatCreatesNothing(r1, r2))

\* The history of a chat, one image message, was fetched twice: the first
\* fetch stored the Message and launched its processing, the second found it
\* and did neither.
C30_Witness ==
    \E r1, r2 \in Req :
        /\ r1 < r2
        /\ reqs[r1].kind = "history" /\ reqs[r2].kind = "history"
        /\ Done(r1) /\ Done(r2)
        /\ reqs[r1].error = "" /\ reqs[r2].error = ""
        /\ Len(reqs[r1].list) = 1 /\ reqs[r2].list = reqs[r1].list
        /\ reqs[r1].savedMessage /\ reqs[r1].launched = 1
        /\ ~reqs[r2].savedMessage /\ reqs[r2].launched = 0
        /\ Cardinality(MessagesWith(reqs[r1].list[1].id)) = 1
        /\ Len(tasks) = 1

----------------------------------------------------------------------------
(* C31 *)

Sends == {r \in Req : reqs[r].kind = "send"}

\* The provider accepted the message of send request r and returned its id.
ProviderSent(r) == reqs[r].data.id # ""

\* A send whose provider call failed is answered with the error, without a
\* Message of its own.
SendFailureLeavesStore ==
    \A r \in Sends :
        reqs[r].error = "send"
            => /\ Done(r)
               /\ reqs[r].response = <<Reply(500, json("send"))>>
               /\ ~reqs[r].savedMessage
               /\ reqs[r].message = 0

\* A send whose provider call succeeded ends with 201 and with exactly one
\* Message carrying the returned id, its own.
SendSuccessRecorded ==
    \A r \in Sends :
        (ProviderSent(r) /\ Done(r))
            => /\ reqs[r].response = <<Reply(201, "message")>>
               /\ reqs[r].savedMessage
               /\ \A m \in MessagesWith(reqs[r].data.id) : m._id = reqs[r].message
               /\ Cardinality(MessagesWith(reqs[r].data.id)) = 1

\* The step in which the provider call fails changes no Message and no Chat;
\* the step that answers 201 has set the reference of the chat to the new
\* Message.
SendStep ==
    \A r \in Sends :
        /\ (reqs'[r].error = "send" /\ reqs[r].error = "")
              => messages' = messages /\ chats' = chats
        /\ (reqs'[r].response = <<Reply(201, "message")>> /\ reqs[r].response = << >>)
              => LastMessageOf(reqs[r].chat)' = reqs[r].message

\* C31: a send whose provider call fails creates no Message, changes no
\* chat's last-message reference and is answered with an error; a send whose
\* provider call succeeds creates exactly one Message with the returned id
\* and sets the chat's last-message reference to it before answering with
\* success.
C31_SendOutcome ==
    /\ []SendFailureLeavesStore
    /\ []SendSuccessRecorded
    /\ [][SendStep]_vars

----------------------------------------------------------------------------
(* C32 *)

\* The reactions of the account, and those of everybody else, in order.
Mine(reactions) == SelectSeq(reactions, LAMBDA x : x.userId = "me")
Others(reactions) == SelectSeq(reactions, LAMBDA x : x.userId # "me")

\* No stored Message holds two reactions of the account.
AtMostOneMine == \A m \in messages : Len(Mine(m.reactions)) <= 1

\* Request r applies its reaction in this step.
Applies(r) ==
    /\ reqs[r].kind = "react" /\ reqs[r].pc = "saveMessage"
    /\ reqs'[r].response = <<Reply(200, "success")>>

\* The step that applies a reaction leaves the Message with the emoji of
\* that request as the account's reaction; every step leaves the reactions
\* of the other actors as they are.
ReactStep ==
    /\ \A r \in Req :
          Applies(r)
              => \A m \in messages' :
                    m._id = reqs[r].message
                        => \A i \in 1..Len(Mine(m.reactions)) :
                              Mine(m.reactions)[i].emoji = reqs[r].emoji
    /\ \A m \in messages :
          \E m2 \in messages' :
              m2._id = m._id /\ Others(m2.reactions) = Others(m.reactions)

\* C32: after any sequence of react requests on a stored Message, interleaved
\* ones included, the Message holds at most one reaction of the account, its
\* emoji is that of the last request applied, and the reactions of other
\* actors are unchanged.
C32_OneReactionOfMine == []AtMostOneMine /\ [][ReactStep]_vars

----------------------------------------------------------------------------
(* C33 *)

\* Manual request r passed its guards and was acknowledged.
ManualAcked(r) == reqs[r].kind = "manual" /\ reqs[r].launched = 1

ManualTasksOf(r) == {t \in TaskIds : tasks[t].kind = "manual" /\ tasks[t].by = r}

\* An acknowledged manual request has sent one response, the 202; a manual
\* task exists, and a download of its is counted, only for a request that was
\* acknowledged.
OneResponse ==
    /\ \A r \in Req :
          ManualAcked(r)
              => reqs[r].response = <<Reply(202, json("Document processing started"))>>
    /\ \A t \in TaskIds :
          tasks[t].kind = "manual"
              => /\ ManualAcked(tasks[t].by)
                 /\ reqs[tasks[t].by].response # << >>

\* No step changes the response of an acknowledged manual request.
ResponseFinal ==
    \A r \in Req : ManualAcked(r) => reqs'[r].response = reqs[r].response

\* C33: a manual process request that passes its guards sends exactly one
\* HTTP response, the 202, before its background part downloads anything,
\* and nothing the background part does sends a second one.
C33_SingleResponse == []OneResponse /\ [][ResponseFinal]_vars

\* An acknowledged manual request whose background part has ended in its
\* catch, with the error broadcast.
C33_Witness ==
    \E r \in Req :
        /\ ManualAcked(r)
        /\ Done(r)
        /\ \E t \in ManualTasksOf(r) :
              /\ Failed(t)
              /\ Broadcasts("document_processing_error", ByTask(t)) = 1

----------------------------------------------------------------------------
(* C34 *)

\* The webhook requests whose event is not a message.
OtherEvents == {r \in Req : reqs[r].kind = "webhook" /\ reqs[r].event # "message"}

\* Such a request is acknowledged and over; it resolved no Chat, stored no
\* Message, asked the provider nothing, launched no task and broadcast
\* nothing.
Inert ==
    \A r \in OtherEvents :
        /\ reqs[r].response = <<Reply(200, "OK")>>
        /\ Done(r)
        /\ reqs[r].chat = 0 /\ reqs[r].message = 0
        /\ ~reqs[r].createdChat /\ ~reqs[r].savedMessage
        /\ reqs[r].fetches = 0 /\ reqs[r].fetch = ""
        /\ reqs[r].launched = 0
        /\ BroadcastsBy(r) = 0
        /\ TasksOf(r) = {}

\* The step that takes such a request up changes no Chat, Message or
\* Document, no task and no broadcast; the request takes no step after it.
InertStep ==
    \A r \in Req :
        (reqs'[r].kind = "webhook" /\ reqs'[r].event # "message")
            => IF reqs[r].kind = "idle" THEN NoEffect ELSE reqs'[r] = reqs[r]

\* C34: a webhook event whose kind is not 'message' is acknowledged and then
\* creates or changes no Chat, Message or Document, makes no provider or OCR
\* call and broadcasts nothing.
C34_OtherEventsInert == []Inert /\ [][InertStep]_vars

\* An event of a kind the handler has no branch for was taken up while an
\* ingestion that had stored its Message was still on its way.
C34_Witness ==
    \E r1, r2 \in Req :
        /\ r1 < r2
        /\ reqs[r1].kind = "webhook" /\ reqs[r1].savedMessage
        /\ reqs[r1].pc = "updateChat"
        /\ r2 \in OtherEvents /\ reqs[r2].event = "chat"
        /\ Done(r2)

----------------------------------------------------------------------------
(* C35 *)

\* Every reference of a stored row names a stored row: a Message its Chat, a
\* Document its Message and the Chat of that Message, a Chat's last-message
\* reference a Message of that Chat.
ReferencesResolve ==
    /\ \A m \in messages : \E c \in chats : c._id = m.chat
    /\ \A d \in documents :
          \E m \in messages :
              /\ m._id = d.originalMessage
              /\ d.chat = m.chat
              /\ \E c \in chats : c._id = d.chat
    /\ \A c \in chats :
          c.lastMessage # 0
              => \E m \in messages : m._id = c.lastMessage /\ m.chat = c._id

\* C35: whenever no request and no task is in flight, every Message
\* references an existing Chat, every Document references an existing
\* Message and the Chat that owns it, and every last-message reference that
\* is set names an existing Message of that Chat.
C35_ReferentialIntegrity == Quiescent => ReferencesResolve

\* At rest with two Chats, a Message in each, a last-message reference set
\* and a Document stored.
C35_Witness ==
    /\ Quiescent
    /\ Cardinality(chats) = 2
    /\ \A c \in chats : \E m \in messages : m.chat = c._id
    /\ \E c \in chats : c.lastMessage # 0
    /\ documents # {}

----------------------------------------------------------------------------
(* C36 *)

\* The organization reference of a Chat, when set, names a stored
\* Organization.
NoDanglingOrganization ==
    \A c \in chats : c.organization # 0 => FindById(c.organization)._id # 0

\* C36: whenever no request is in flight, no Chat references an Organization
\* that was deleted, however a delete of an Organization is interleaved with
\* assignments of chats and additions of chats to organizations.
C36_DeleteClearsReferences == Quiescent => NoDanglingOrganization

----------------------------------------------------------------------------
(* C37 *)

\* Chat c is on a chat list of Organization o: by reference (chats) or by
\* chat id (chatIds).
Listed(c, o) == Includes(o.chats, c._id) \/ Includes(o.chatIds, c.chatId)

\* The requests so far were additions of a chat to an organization and
\* removals of a chat from one.
OnlyAddRemove ==
    \A r \in Req :
        reqs[r].kind \in {"idle", "addChat", "removeChat",
                          "inlineAddChat", "inlineRemoveChat"}

\* A Chat is listed by exactly the Organization it references.
ListedIffReferenced ==
    \A c \in chats, o \in organizations : Listed(c, o) <=> c.organization = o._id

\* A step of a removal leaves every Chat that references another
\* Organization as it is.
RemoveKeepsOtherReference ==
    \A r \in Req :
        (reqs[r].kind \in {"removeChat", "inlineRemoveChat"} /\ reqs'[r] # reqs[r])
            => \A c \in chats :
                  (c.organization # 0 /\ c.organization # reqs[r].organization)
                      => c \in chats'

\* C37: after any sequence of add-chat and remove-chat requests, a Chat is
\* on the chat list of an Organization if and only if the Chat references
\* that Organization, hence on the list of at most one; and a removal from
\* one Organization never clears a reference to another.
C37_ListedIffReferenced ==
    /\ []((Quiescent /\ OnlyAddRemove) => ListedIffReferenced)
    /\ [][RemoveKeepsOtherReference]_vars

----------------------------------------------------------------------------
(* C38 *)

RECURSIVE TablesOfPages(_)
\* The source tables of the pages, in page order.
TablesOfPages(pages) ==
    IF pages = << >> THEN << >>
    ELSE (IF Head(pages).tables = Absent THEN << >> ELSE Head(pages).tables[1])
             \o TablesOfPages(Tail(pages))

\* The source tables of the document the OCR service returned.
SourceTableList ==
    IF aiDocument.pages = Absent THEN << >> ELSE TablesOfPages(aiDocument.pages[1])

\* The rows of a group of a source table; none when the group is absent.
GroupRows(group) == IF group = Absent THEN << >> ELSE group[1]

\* The span a cell is to be returned with: the source's when it is at least
\* 1, otherwise 1.
ExpectedSpan(span) == IF span # Absent /\ span[1] >= 1 THEN span[1] ELSE 1

\* The returned row has the cells of the source row, with its spans.
SameCells(row, sourceRow) ==
    /\ Len(row.cells) = Len(sourceRow.cells)
    /\ \A j \in 1..Len(row.cells) :
          /\ row.cells[j].rowSpan = ExpectedSpan(sourceRow.cells[j].rowSpan)
          /\ row.cells[j].colSpan = ExpectedSpan(sourceRow.cells[j].colSpan)

\* C38: every table the OCR client returns has as many rows as its source
\* table has header rows and body rows; every row flagged as header comes
\* before every row flagged as body; within each group the rows are in the
\* source's order; and every cell has a row span and a column span of at
\* least 1, 1 when the source gives none.
C38_TableShape ==
    tables.done
        => /\ Len(tables.value) = Len(SourceTableList)
           /\ \A k \in 1..Len(SourceTableList) :
                 LET h == GroupRows(SourceTableList[k].headerRows)
                     b == GroupRows(SourceTableList[k].bodyRows)
                     rows == tables.value[k].rows
                 IN  /\ Len(rows) = Len(h) + Len(b)
                     /\ \A i, j \in 1..Len(rows) :
                           (rows[i].isHeader /\ ~rows[j].isHeader) => i < j
                     /\ \A i \in 1..Len(h) :
                           rows[i].isHeader /\ SameCells(rows[i], h[i])
                     /\ \A i \in 1..Len(b) :
                           /\ ~rows[Len(h) + i].isHeader
                           /\ SameCells(rows[Len(h) + i], b[i])
                     /\ \A i \in 1..Len(rows) :
                           \A j \in 1..Len(rows[i].cells) :
                               /\ rows[i].cells[j].rowSpan >= 1
                               /\ rows[i].cells[j].colSpan >= 1

\* A table extracted from two header rows and two body rows, the rows of a
\* group differing, with a span left out, a span of 0 and a span of 2 among
\* the source cells.
C38_Witness ==
    /\ tables.done
    /\ Len(tables.value) = 1
    /\ LET h == GroupRows(SourceTableList[1].headerRows)
           b == GroupRows(SourceTableList[1].bodyRows)
       IN  /\ Len(h) = 2 /\ Len(b) = 2
           /\ Len(tables.value[1].rows) = 4
           /\ h[1] # h[2] /\ b[1] # b[2]
           /\ Len(h[1].cells) = 1 /\ Len(h[2].cells) = 1 /\ Len(b[1].cells) = 1
           /\ h[1].cells[1].rowSpan = Absent
           /\ h[2].cells[1].rowSpan = Some(0)
           /\ b[1].cells[1].colSpan = Some(2)
           /\ tables.value[1].rows[1].cells[1].rowSpan = 1
           /\ tables.value[1].rows[2].cells[1].rowSpan = 1
           /\ tables.value[1].rows[3].cells[1].colSpan = 2

====
